---- MODULE Spec2Model ----
(***************************************************************************)
(* WLANThermo Home Assistant integration: the device client (api.py), the  *)
(* polling coordinator (__init__.py) and the command dispatcher            *)
(* (switch.py, button.py), as state machines.                              *)
(***************************************************************************)
EXTENDS Integers, Sequences, FiniteSets, TLC

VARIABLES
    now,                 \* time.monotonic(), in whole time units
    device,              \* the remote device's configuration (the source of truth)
    setupPc,             \* position of async_setup_entry
    entry_data,          \* hass.data[DOMAIN][entry_id]
    settings,            \* api.settings, the Settings cache
    data,                \* coordinator.data: the published Snapshot or None
    last_update_success, \* coordinator.last_update_success
    snapCount,           \* number of WlanthermoData objects built so far
    poll,                \* the refresh cycles: one started by the timer, one by a request
    refreshRequested,    \* an async_request_refresh() call is waiting for its cycle
    tasks,               \* the user actions invoked so far, each with its position
    last_press,          \* _last_press of each debounced button
    call,                \* the last stand-alone device client call and its result
    sensor,              \* the time-left sensor of the channel: option, history, last value
    bitop,               \* the last bit-mask helper applied and its result
    pit,                 \* the temperature sensor of a pitmaster and the Snapshot it reads
    entries,             \* hass.data[DOMAIN] with two configured entries
    store                \* entry_data["entities"] and the entities given to async_add_entities

vars == <<now, device, setupPc, entry_data, settings, data, last_update_success,
          snapCount, poll, refreshRequested, tasks, last_press, call, sensor, bitop, pit, entries, store>>

----------------------------------------------------------------------------
\* Bounds of the model.

\* Snapshot objects built in one behaviour.
MaxSnapshots == 2
\* User actions invoked in one behaviour.
MaxInvocations == 2
\* User actions invoked while the refresh cycles are followed.
MaxSyncWrites == 1
\* Last value of the monotonic clock.
MaxTime == 10

\* Reads of the time-left sensor in one behaviour.
MaxReads == 2
\* Reads of the time-left sensor in a run that fills its history.
MaxBufferReads == 64

\* Presses of the debounced buttons in a run that follows the cool-down.
MaxPresses == 3

\* Largest mask and largest bit index given to the bit-mask helpers.
MaxMask == 15
MaxBit == 3

\* Program constants.
DEBOUNCE_SECONDS == 5
\* window_seconds=300 of WlanthermoChannelTimeLeftSensor.__init__
WINDOW_SECONDS == 300
\* collections.deque(maxlen=60)
HISTORY_MAXLEN == 60

----------------------------------------------------------------------------
\* Python values.

\* None
NoData == [kind |-> "none"]
\* a raised exception
Raised == [kind |-> "raise"]
\* {} : a JSON body that decodes to an empty (falsy) object
EmptyBody == [kind |-> "empty"]
\* a JSON body that decodes but does not have the expected shape
MalformedBody == [kind |-> "malformed"]

\* Python truthiness of a decoded payload ("if raw_data:", "if not raw_data:")
Truthy(x) == x.kind \notin {"none", "empty"}

----------------------------------------------------------------------------
\* Text: a str is a sequence of one-character strings.

Whitespace == {" ", "\n", "\t"}

LowerChar(c) ==
    CASE c = "T" -> "t"
      [] c = "R" -> "r"
      [] c = "U" -> "u"
      [] c = "E" -> "e"
      [] c = "F" -> "f"
      [] c = "A" -> "a"
      [] c = "L" -> "l"
      [] c = "S" -> "s"
      [] c = "K" -> "k"
      [] OTHER -> c

\* str.lower()
Lower(s) == [i \in 1..Len(s) |-> LowerChar(s[i])]

RECURSIVE LStrip(_)
LStrip(s) == IF s # <<>> /\ Head(s) \in Whitespace THEN LStrip(Tail(s)) ELSE s

RECURSIVE RStrip(_)
RStrip(s) ==
    IF s # <<>> /\ s[Len(s)] \in Whitespace THEN RStrip(SubSeq(s, 1, Len(s) - 1)) ELSE s

\* a trim of the leading whitespace only
StripLeading(s) == LStrip(s)

\* str.strip()
Strip(s) == RStrip(LStrip(s))

----------------------------------------------------------------------------
\* The device client (api.py).

\* What one HTTP exchange can end in: net is "ok" when a response arrived within
\* the timeout, "error" on a transport error and "timeout" when async_timeout fired.
HttpResponse(net, status, json, body, text) ==
    [net |-> net, status |-> status, json |-> json, body |-> body, text |-> text]

TransportFailures ==
    { HttpResponse(n, 0, FALSE, NoData, <<>>) : n \in {"error", "timeout"} }

\* Responses to a GET whose decodable bodies are drawn from bodies.
GetResponses(statuses, bodies) ==
    TransportFailures
    \cup { HttpResponse("ok", st, FALSE, NoData, <<>>) : st \in statuses }
    \cup { HttpResponse("ok", st, TRUE, b, <<>>) : st \in statuses, b \in bodies }

\* Responses to a write whose texts are drawn from texts.
WriteResponses(statuses, texts) ==
    TransportFailures
    \cup { HttpResponse("ok", st, FALSE, NoData, t) : st \in statuses, t \in texts }

\* _get without the status test
ApiGetNoStatusCheck(resp) ==
    IF resp.net # "ok" THEN NoData
    ELSE IF ~resp.json THEN NoData
    ELSE resp.body

\* WLANThermoApi._get and the get_* wrappers, which only fix the endpoint
ApiGet(resp) ==
    IF resp.net # "ok" THEN NoData
    ELSE IF resp.status # 200 THEN NoData
    ELSE IF ~resp.json THEN NoData
    ELSE resp.body

\* WLANThermoApi._request: (status, text), or (None, None) when has is FALSE
ApiRequest(resp) ==
    IF resp.net # "ok"
    THEN [has |-> FALSE, status |-> 0, text |-> <<>>]
    ELSE [has |-> TRUE, status |-> resp.status, text |-> resp.text]

TrueText == <<"t", "r", "u", "e">>

\* async_set_* comparing the untrimmed body
AsyncSetNoStrip(resp) ==
    LET r == ApiRequest(resp)
    IN  IF ~(r.has /\ r.status = 200) THEN "False"
        ELSE IF r.text = <<>> THEN "''"
        ELSE IF Lower(r.text) = TrueText THEN "True"
        ELSE "False"

\* async_set_* without the status test
AsyncSetAnyStatus(resp) ==
    LET r == ApiRequest(resp)
    IN  IF ~r.has THEN "False"
        ELSE IF r.text = <<>> THEN "''"
        ELSE IF Lower(Strip(r.text)) = TrueText THEN "True"
        ELSE "False"

\* async_set_channel ... async_set_iot: the value of
\* "status == 200 and text and text.strip().lower() == 'true'", as Python
\* evaluates it: False, '' or True.
AsyncSet(resp) ==
    LET r == ApiRequest(resp)
    IN  IF ~(r.has /\ r.status = 200) THEN "False"
        ELSE IF r.text = <<>> THEN "''"
        ELSE IF Lower(Strip(r.text)) = TrueText THEN "True"
        ELSE "False"

\* a handler that never takes the "if success:" branch
SuccessNever(v) == FALSE

\* "if success:"
Success(v) == v = "True"

----------------------------------------------------------------------------
\* The device and the wire payloads it serves.

\* A PID profile as /settings lists it; aktor 3 is the damper, the only
\* actuator with a link flag.
PidProfile(id, aktor, opl, link) ==
    [id |-> id, aktor |-> aktor, Kp |-> 10 + id, opl |-> opl, link |-> link]

\* max is the target temperature of the channel, <<>> when /data gives none.
DeviceInit ==
    [ pid       |-> << PidProfile(0, 0, FALSE, 0), PidProfile(1, 3, FALSE, 0) >>,
      push      |-> [ telegram |-> [enabled |-> FALSE, token |-> "tg", chat_id |-> "42"],
                      pushover |-> [enabled |-> FALSE, token |-> "po", user_key |-> "u"] ],
      bluetooth |-> [ enabled |-> TRUE,
                      devices |-> << [address |-> "aa:01", count |-> 2, selected |-> 1] >> ],
      iot       |-> [CLon |-> TRUE, CLtoken |-> <<"k", "0">>],
      tokens    |-> 0,
      max       |-> <<70>> ]

\* The body of GET /data
DataPayload(dev, temp) ==
    [ kind      |-> "telemetry",
      temp      |-> temp,
      max       |-> dev.max,
      push      |-> dev.push,
      bluetooth |-> dev.bluetooth,
      iot       |-> dev.iot ]

\* The body of GET /settings
SettingsPayload(dev) ==
    [kind |-> "settings", pid |-> dev.pid, iot |-> dev.iot]

\* What the device may answer to GET /data and GET /settings; a channel reports
\* 50 or 999, the "no probe" sentinel.
DataResponses(dev) ==
    GetResponses({200, 500},
                 {EmptyBody, MalformedBody} \cup { DataPayload(dev, t) : t \in {50, 999} })

SettingsResponses(dev) ==
    GetResponses({200, 500}, {EmptyBody, MalformedBody, SettingsPayload(dev)})

----------------------------------------------------------------------------
\* The state model (data.py).

\* SettingsData.from_json: the Settings, or a raised exception
SettingsFromJson(body) ==
    IF body.kind # "settings" THEN Raised
    ELSE [kind |-> "settings", pid |-> body.pid, iot |-> body.iot]

\* WlanthermoData(raw_data): the n-th Snapshot object, or a raised exception
WlanthermoData(body, n) ==
    IF body.kind # "telemetry" THEN Raised
    ELSE [ kind      |-> "snapshot",
           id        |-> n,
           temp      |-> body.temp,
           max       |-> body.max,
           push      |-> body.push,
           bluetooth |-> body.bluetooth,
           settings  |-> [iot |-> body.iot] ]

IsSnapshot(d) == d.kind = "snapshot"

----------------------------------------------------------------------------
\* The coordinator (__init__.py).

Slots == {"timer", "request"}

\* One refresh cycle: where async_update_data stands, its locals, and the
\* return statement its last run ended with ("line 93", "line 103", "line 107").
PollState(pc, raw_data, raw_settings, returned) ==
    [pc |-> pc, raw_data |-> raw_data, raw_settings |-> raw_settings, returned |-> returned]

IdlePoll == PollState("idle", NoData, NoData, "never")

\* the /settings step blanking the cache when the fetch or the parse fails
SettingsAfterFetchBlank(old, raw_settings) ==
    IF Truthy(raw_settings)
    THEN LET s == SettingsFromJson(raw_settings)
         IN  IF s.kind = "raise" THEN NoData ELSE s
    ELSE NoData

\* the /settings step never replacing the cache
SettingsAfterFetchKeep(old, raw_settings) == old

\* the /settings step without its "except Exception"
SettingsAfterFetchUncaught(old, raw_settings) ==
    IF Truthy(raw_settings) THEN SettingsFromJson(raw_settings) ELSE old

\* async_update_data, lines 96-101: the Settings cache after the /settings fetch
SettingsAfterFetch(old, raw_settings) ==
    IF Truthy(raw_settings)
    THEN LET s == SettingsFromJson(raw_settings)
         IN  IF s.kind = "raise" THEN old ELSE s
    ELSE old

\* the update returning the Snapshot of setup whatever /data said
UpdateResultInitial(raw_data, n) == WlanthermoData(DataPayload(DeviceInit, 50), n)

\* async_update_data without the outer "except Exception"
UpdateResultUncaught(raw_data, n) == WlanthermoData(raw_data, n)

\* async_update_data, lines 103-107: the returned value once /data is in
UpdateResult(raw_data, n) ==
    LET d == WlanthermoData(raw_data, n)
    IN  IF d.kind = "raise" THEN NoData ELSE d

\* a coordinator that stays without data once it holds none
CoordinatorDataStickyOffline(result, old) ==
    IF result.kind = "raise" THEN old ELSE IF old = NoData THEN NoData ELSE result

\* a coordinator that keeps its last Snapshot when the update returns None
CoordinatorDataKeepLast(result, old) ==
    IF result.kind \in {"raise", "none"} THEN old ELSE result

\* DataUpdateCoordinator running update_method: what a finished update leaves
\* in coordinator.data
CoordinatorData(result, old) ==
    IF result.kind = "raise" THEN old ELSE result

\* The coordinator is Offline when it holds no Snapshot.
Offline == data = NoData
Online == IsSnapshot(data)

\* The end of a refresh cycle on slot s: async_update_data ended at the given
\* statement with the given result, which the coordinator takes.
Refreshed(s, raw_settings, returned, result) ==
    /\ data' = CoordinatorData(result, data)
    /\ last_update_success' = (result.kind # "raise")
    /\ snapCount' = IF result.kind = "snapshot" THEN snapCount + 1 ELSE snapCount
    /\ poll' = [poll EXCEPT ![s] = PollState("idle", NoData, raw_settings, returned)]

\* A cycle starts: GET /data is sent.
StartCycle(s) ==
    poll' = [poll EXCEPT ![s] = PollState("data", NoData, NoData, "running")]

ActiveCycles == Cardinality({s \in Slots : poll[s].pc # "idle"})

\* async_setup_entry, lines 41-80 and 124: the initial /settings fetch, then
\* the first refresh begins.
SetupSettings ==
    /\ setupPc = "settings"
    /\ \E resp \in SettingsResponses(device) :
          LET settings_json == ApiGet(resp)
          IN  settings' = SettingsAfterFetch(settings, settings_json)
    /\ setupPc' = "refresh"
    /\ StartCycle("timer")
    /\ UNCHANGED <<now, device, entry_data, data, last_update_success, snapCount,
                   refreshRequested, tasks, last_press, call, sensor, bitop, pit, entries, store>>

\* sensor.async_setup_entry, lines 38-93: the sensor entities are created from
\* the Snapshot the coordinator holds; with none the platform returns at once.
SensorSetup(d) == d # NoData

\* async_setup_entry, lines 126-156: after the first refresh.  When the first
\* update was recorded as failed the platforms are left to the listener
\* _async_start_platforms; otherwise they are forwarded at once.
SetupFinish ==
    /\ setupPc = "refresh"
    /\ poll["timer"].pc = "idle"
    /\ setupPc' = "done"
    /\ entry_data' = [ registered      |-> TRUE,
                       platforms_setup |-> last_update_success,
                       start_listener  |-> ~last_update_success,
                       sensor_entities |-> last_update_success /\ SensorSetup(data) ]
    /\ UNCHANGED <<now, device, settings, data, last_update_success, snapCount, poll,
                   refreshRequested, tasks, last_press, call, sensor, bitop, pit, entries, store>>

\* The update interval elapsed: the scheduled refresh starts.
TimerRefresh ==
    /\ setupPc = "done"
    /\ poll["timer"].pc = "idle"
    /\ snapCount + ActiveCycles < MaxSnapshots
    /\ StartCycle("timer")
    /\ UNCHANGED <<now, device, setupPc, entry_data, settings, data, last_update_success,
                   snapCount, refreshRequested, tasks, last_press, call, sensor, bitop, pit, entries, store>>

\* The refresh asked for by async_request_refresh starts.
RequestedRefresh ==
    /\ setupPc = "done"
    /\ refreshRequested
    /\ poll["request"].pc = "idle"
    /\ snapCount + ActiveCycles < MaxSnapshots
    /\ refreshRequested' = FALSE
    /\ StartCycle("request")
    /\ UNCHANGED <<now, device, setupPc, entry_data, settings, data, last_update_success,
                   snapCount, tasks, last_press, call, sensor, bitop, pit, entries, store>>

\* async_update_data, lines 90-93: the answer to GET /data arrives.
PollData(s) ==
    /\ poll[s].pc = "data"
    /\ \E resp \in DataResponses(device) :
          LET raw_data == ApiGet(resp)
          IN  IF ~Truthy(raw_data)
              THEN /\ Refreshed(s, NoData, "line 93", NoData)
              ELSE /\ poll' = [poll EXCEPT ![s] =
                                   PollState("settings", raw_data, NoData, "running")]
                   /\ UNCHANGED <<data, last_update_success, snapCount>>
    /\ UNCHANGED <<now, device, setupPc, entry_data, settings, refreshRequested, tasks,
                   last_press, call, sensor, bitop, pit, entries, store>>

\* async_update_data, lines 96-107: the answer to GET /settings arrives, the
\* Snapshot is built and the coordinator takes the result.
PollSettings(s) ==
    /\ poll[s].pc = "settings"
    /\ \E resp \in SettingsResponses(device) :
          LET raw_settings == ApiGet(resp)
              built == WlanthermoData(poll[s].raw_data, snapCount + 1)
          IN  /\ settings' = SettingsAfterFetch(settings, raw_settings)
              /\ Refreshed(s, raw_settings,
                           IF built.kind = "raise" THEN "line 107" ELSE "line 103",
                           UpdateResult(poll[s].raw_data, snapCount + 1))
    /\ UNCHANGED <<now, device, setupPc, entry_data, refreshRequested, tasks,
                   last_press, call, sensor, bitop, pit, entries, store>>

\* A whole scheduled refresh whose /data fetch fails or comes back empty:
\* async_update_data returns None at line 93 and the coordinator takes it.
OfflineRefresh ==
    /\ setupPc = "done"
    /\ poll["timer"].pc = "idle"
    /\ \E resp \in DataResponses(device) : ~Truthy(ApiGet(resp))
    /\ Refreshed("timer", NoData, "line 93", NoData)
    /\ UNCHANGED <<now, device, setupPc, entry_data, settings, refreshRequested, tasks,
                   last_press, call, sensor, bitop, pit, entries, store>>

----------------------------------------------------------------------------
\* Bit masks (switch.py, lines 458-465), on non-negative integers.

RECURSIVE BitAnd(_, _)
BitAnd(a, b) ==
    IF a = 0 \/ b = 0 THEN 0
    ELSE (IF a % 2 = 1 /\ b % 2 = 1 THEN 1 ELSE 0) + 2 * BitAnd(a \div 2, b \div 2)

RECURSIVE BitOr(_, _)
BitOr(a, b) ==
    IF a = 0 THEN b
    ELSE IF b = 0 THEN a
    ELSE (IF a % 2 = 1 \/ b % 2 = 1 THEN 1 ELSE 0) + 2 * BitOr(a \div 2, b \div 2)

\* 1 << bit
Shl1(bit) == 2 ^ bit

is_bit_set(mask, bit) == BitAnd(mask, Shl1(bit)) # 0

\* a set_bit that returns the bit alone
set_bit_alone(mask, bit) == Shl1(bit)

set_bit(mask, bit) == BitOr(mask, Shl1(bit))

\* a clear_bit that subtracts the bit whether it is set or not
clear_bit_subtracting(mask, bit) == mask - Shl1(bit)

\* mask & ~(1 << bit): ~x has every bit of x flipped, so the AND drops the bits of x
clear_bit(mask, bit) == mask - BitAnd(mask, Shl1(bit))

----------------------------------------------------------------------------
\* The command dispatcher (switch.py, button.py).

NoRequest == [endpoint |-> "none", payload |-> NoData]

Request(endpoint, payload) == [endpoint |-> endpoint, payload |-> payload]

\* One invoked user action: its entry point, the clock at the invocation, its
\* position, the HTTP request it issued and whether the device acknowledged it.
Task(kind, pc, req) ==
    [kind |-> kind, time |-> now, pc |-> pc, req |-> req, acked |-> FALSE]

SwitchKinds ==
    {"pid_opl", "pid_link", "telegram_enabled", "pushover_enabled",
     "bluetooth_enabled", "bluetooth_probe"}

TestKinds == {"telegram_test", "pushover_test"}

ProfileIds == {0, 1}

\* The n-th cloud token the device hands out.
TokenText(n) ==
    <<"k", <<"0", "1", "2", "3", "4", "5", "6", "7", "8", "9">>[(n % 10) + 1]>>

\* What the device may answer to a configuration write.
SetResponses ==
    WriteResponses({200}, {<<" ", "T", "r", "u", "e", "\n">>, <<"f", "a", "l", "s", "e">>})
    \cup WriteResponses({500}, {TrueText})

\* What the device may answer to POST /newtoken.
NewTokenResponses(dev) ==
    WriteResponses({200}, {TokenText(dev.tokens + 1) \o <<"\n">>, <<>>})
    \cup WriteResponses({500}, {<<"e", "r", "r">>})

\* The device acknowledges a configuration write with status 200 and a body
\* reading "true".
Acked(resp) == resp.net = "ok" /\ resp.status = 200 /\ Lower(Strip(resp.text)) = TrueText

\* The device hands out a token with status 200 and a non-empty body.
TokenIssued(resp) == resp.net = "ok" /\ resp.status = 200 /\ resp.text # <<>>

\* The device's configuration after it served a write request.
DeviceApply(dev, req) ==
    CASE req.endpoint = "/setpid" ->
           [dev EXCEPT !.pid =
               [i \in 1..Len(dev.pid) |->
                   IF \E j \in 1..Len(req.payload) : req.payload[j].id = dev.pid[i].id
                   THEN req.payload[CHOOSE j \in 1..Len(req.payload) :
                                        req.payload[j].id = dev.pid[i].id]
                   ELSE dev.pid[i]]]
      [] req.endpoint = "/setpush" /\ ~req.payload.test ->
           IF req.payload.section = "telegram"
           THEN [dev EXCEPT !.push.telegram = req.payload.value]
           ELSE [dev EXCEPT !.push.pushover = req.payload.value]
      [] req.endpoint = "/setbluetooth" ->
           [dev EXCEPT !.bluetooth = req.payload]
      [] req.endpoint = "/newtoken" ->
           [dev EXCEPT !.iot.CLtoken = TokenText(dev.tokens + 1), !.tokens = dev.tokens + 1]
      [] OTHER -> dev

\* The device's acknowledgement of the request, as the device means it.
Acknowledged(req, resp) ==
    IF req.endpoint = "/newtoken" THEN TokenIssued(resp) ELSE Acked(resp)

\* The device side of a write exchange: an acknowledged write was applied, a
\* rejected one was not, and one whose answer was lost may be either.
DeviceAfter(dev, req, resp) ==
    IF resp.net # "ok" THEN {dev, DeviceApply(dev, req)}
    ELSE IF Acknowledged(req, resp) THEN {DeviceApply(dev, req)}
    ELSE {dev}

CanInvoke == setupPc = "done" /\ Len(tasks) < MaxInvocations

\* Index of the first profile of the Settings cache with this id, 0 if none.
ProfileIndex(id) ==
    IF \E i \in 1..Len(settings.pid) : settings.pid[i].id = id
    THEN CHOOSE i \in 1..Len(settings.pid) :
            /\ settings.pid[i].id = id
            /\ \A j \in 1..(i - 1) : settings.pid[j].id # id
    ELSE 0

\* a serialisation that emits the id and the two flags alone
to_sparse_payload(p) == [id |-> p.id, opl |-> p.opl, link |-> p.link]

\* PidProfile.to_full_payload
to_full_payload(p) == p

\* WlanthermoPidProfileOplSwitch._async_set_opl up to the await of the write
TurnPidOpl ==
    /\ CanInvoke
    /\ settings.kind = "settings"
    /\ \E id \in ProfileIds, value \in BOOLEAN :
          LET i == ProfileIndex(id)
          IN  /\ i # 0
              /\ settings' = [settings EXCEPT !.pid[i].opl = value]
              /\ tasks' = Append(tasks,
                     Task("pid_opl", "await",
                          Request("/setpid", << to_full_payload(settings'.pid[i]) >>)))
    /\ UNCHANGED <<now, device, setupPc, entry_data, data, last_update_success, snapCount,
                   poll, refreshRequested, last_press, call, sensor, bitop, pit, entries, store>>

\* WlanthermoPidProfileLinkSwitch._async_set_link up to the await of the write
TurnPidLink ==
    /\ CanInvoke
    /\ settings.kind = "settings"
    /\ \E id \in ProfileIds, value \in BOOLEAN :
          LET i == ProfileIndex(id)
          IN  /\ i # 0
              /\ settings.pid[i].aktor = 3
              /\ settings' = [settings EXCEPT !.pid[i].link = IF value THEN 1 ELSE 0]
              /\ tasks' = Append(tasks,
                     Task("pid_link", "await",
                          Request("/setpid", << to_full_payload(settings'.pid[i]) >>)))
    /\ UNCHANGED <<now, device, setupPc, entry_data, data, last_update_success, snapCount,
                   poll, refreshRequested, last_press, call, sensor, bitop, pit, entries, store>>

PushPayload(test, section, value) ==
    [kind |-> "push", test |-> test, section |-> section, value |-> value]

\* WlanthermoTelegramEnabledSwitch._async_write up to the await of the write
TurnTelegramEnabled ==
    /\ CanInvoke
    /\ IsSnapshot(data)
    /\ \E enabled \in BOOLEAN :
          /\ data' = [data EXCEPT !.push.telegram.enabled = enabled]
          /\ tasks' = Append(tasks,
                 Task("telegram_enabled", "await",
                      Request("/setpush", PushPayload(FALSE, "telegram", data'.push.telegram))))
    /\ UNCHANGED <<now, device, setupPc, entry_data, settings, last_update_success,
                   snapCount, poll, refreshRequested, last_press, call, sensor, bitop, pit, entries, store>>

\* WlanthermoPushoverEnabledSwitch._async_write up to the await of the write
TurnPushoverEnabled ==
    /\ CanInvoke
    /\ IsSnapshot(data)
    /\ \E enabled \in BOOLEAN :
          /\ data' = [data EXCEPT !.push.pushover.enabled = enabled]
          /\ tasks' = Append(tasks,
                 Task("pushover_enabled", "await",
                      Request("/setpush", PushPayload(FALSE, "pushover", data'.push.pushover))))
    /\ UNCHANGED <<now, device, setupPc, entry_data, settings, last_update_success,
                   snapCount, poll, refreshRequested, last_press, call, sensor, bitop, pit, entries, store>>

\* WlanthermoBluetoothEnabledSwitch.async_turn_on / async_turn_off with _push
TurnBluetoothEnabled ==
    /\ CanInvoke
    /\ IsSnapshot(data)
    /\ \E enabled \in BOOLEAN :
          /\ data' = [data EXCEPT !.bluetooth.enabled = enabled]
          /\ tasks' = Append(tasks,
                 Task("bluetooth_enabled", "await",
                      Request("/setbluetooth", data'.bluetooth)))
    /\ UNCHANGED <<now, device, setupPc, entry_data, settings, last_update_success,
                   snapCount, poll, refreshRequested, last_press, call, sensor, bitop, pit, entries, store>>

\* WlanthermoBluetoothProbeSwitch._get_device: index of the device, 0 if none
DeviceIndex(address) ==
    IF ~IsSnapshot(data) THEN 0
    ELSE IF \E i \in 1..Len(data.bluetooth.devices) :
                data.bluetooth.devices[i].address = address
         THEN CHOOSE i \in 1..Len(data.bluetooth.devices) :
                 /\ data.bluetooth.devices[i].address = address
                 /\ \A j \in 1..(i - 1) : data.bluetooth.devices[j].address # address
         ELSE 0

\* The probe switches that exist: one per probe of each device the Snapshot lists.
ProbeSwitches ==
    IF ~IsSnapshot(data) THEN {}
    ELSE UNION { { <<data.bluetooth.devices[i].address, p>> :
                      p \in 0..(data.bluetooth.devices[i].count - 1) } :
                  i \in 1..Len(data.bluetooth.devices) }

\* WlanthermoBluetoothProbeSwitch.async_turn_on / async_turn_off with _push,
\* for the switch of one probe of the device with this address
ProbeTurn(address, probe, on) ==
    LET i == DeviceIndex(address)
    IN  IF i = 0
        THEN /\ data' = data
             /\ tasks' = Append(tasks, Task("bluetooth_probe", "done", NoRequest))
        ELSE /\ data' = [data EXCEPT !.bluetooth.devices[i].selected =
                            IF on THEN set_bit(data.bluetooth.devices[i].selected, probe)
                                  ELSE clear_bit(data.bluetooth.devices[i].selected, probe)]
             /\ tasks' = Append(tasks,
                    Task("bluetooth_probe", "await",
                         Request("/setbluetooth", data'.bluetooth)))

\* A probe switch that is available is turned on or off.
TurnBluetoothProbe ==
    /\ CanInvoke
    /\ \E sw \in ProbeSwitches, on \in BOOLEAN :
          /\ data.bluetooth.enabled
          /\ ProbeTurn(sw[1], sw[2], on)
    /\ UNCHANGED <<now, device, setupPc, entry_data, settings, last_update_success,
                   snapCount, poll, refreshRequested, last_press, call, sensor, bitop, pit, entries, store>>

\* the debounce test with a window one unit short
DebouncedOffByOne(b) == now - last_press[b] < DEBOUNCE_SECONDS - 1

\* a debounce test against one stamp shared by all buttons
DebouncedShared(b) == \E c \in DOMAIN last_press : now - last_press[c] < DEBOUNCE_SECONDS

\* The debounce test of async_press: "now - self._last_press < DEBOUNCE_SECONDS"
Debounced(b) == now - last_press[b] < DEBOUNCE_SECONDS

\* a press that stamps _last_press before the debounce test decides
PressingRestamping(b, req) ==
    /\ last_press' = [last_press EXCEPT ![b] = now]
    /\ tasks' = Append(tasks, IF Debounced(b) THEN Task(b, "suppressed", NoRequest)
                                ELSE Task(b, "await", req))
    /\ UNCHANGED <<now, device, setupPc, entry_data, settings, data, last_update_success,
                   snapCount, poll, refreshRequested, call, sensor, bitop, pit, entries, store>>

\* async_press of a debounced button: a suppressed press returns at once, an
\* accepted one stamps _last_press and sends req.
Pressing(b, req) ==
    /\ IF Debounced(b)
       THEN /\ tasks' = Append(tasks, Task(b, "suppressed", NoRequest))
            /\ UNCHANGED last_press
       ELSE /\ last_press' = [last_press EXCEPT ![b] = now]
            /\ tasks' = Append(tasks, Task(b, "await", req))
    /\ UNCHANGED <<now, device, setupPc, entry_data, settings, data, last_update_success,
                   snapCount, poll, refreshRequested, call, sensor, bitop, pit, entries, store>>

\* async_press of a debounced button whose entity is available, as one of the
\* user actions followed.
Press(b, req) == CanInvoke /\ Pressing(b, req)

\* WlanthermoTelegramTestButton.available and async_press
PressTelegramTest ==
    /\ IsSnapshot(data)
    /\ data.push.telegram.token # "" /\ data.push.telegram.chat_id # ""
    /\ Press("telegram_test",
             Request("/setpush", PushPayload(TRUE, "telegram", data.push.telegram)))

\* WlanthermoPushoverTestButton.available and async_press
PressPushoverTest ==
    /\ IsSnapshot(data)
    /\ data.push.pushover.token # "" /\ data.push.pushover.user_key # ""
    /\ Press("pushover_test",
             Request("/setpush", PushPayload(TRUE, "pushover", data.push.pushover)))

\* WlanthermoNewTokenButton.available and async_press up to the await
PressNewToken ==
    /\ IsSnapshot(data)
    /\ data.settings.iot.CLon
    /\ Press("cloud_newtoken", Request("/newtoken", NoData))

\* The write of a switch returns: "if success: await async_request_refresh()".
SwitchWriteDone(i) ==
    /\ tasks[i].pc = "await"
    /\ tasks[i].kind \in SwitchKinds
    /\ \E resp \in SetResponses :
          /\ device' \in DeviceAfter(device, tasks[i].req, resp)
          /\ LET success == AsyncSet(resp)
             IN  IF Success(success)
                 THEN /\ refreshRequested' = TRUE
                      /\ tasks' = [tasks EXCEPT ![i].pc = "refresh", ![i].acked = Acknowledged(tasks[i].req, resp)]
                 ELSE /\ UNCHANGED refreshRequested
                      /\ tasks' = [tasks EXCEPT ![i].pc = "done", ![i].acked = Acknowledged(tasks[i].req, resp)]
    /\ UNCHANGED <<now, setupPc, entry_data, settings, data, last_update_success,
                   snapCount, poll, last_press, call, sensor, bitop, pit, entries, store>>

\* The write of a test button returns: async_press ends.
TestWriteDone(i) ==
    /\ tasks[i].pc = "await"
    /\ tasks[i].kind \in TestKinds
    /\ \E resp \in SetResponses :
          /\ device' \in DeviceAfter(device, tasks[i].req, resp)
          /\ tasks' = [tasks EXCEPT ![i].pc = "done", ![i].acked = Acknowledged(tasks[i].req, resp)]
    /\ UNCHANGED <<now, setupPc, entry_data, settings, data, last_update_success,
                   snapCount, poll, refreshRequested, last_press, call, sensor, bitop, pit, entries, store>>

\* WlanthermoNewTokenButton.async_press, lines 205-213: POST /newtoken returns.
\* Storing the token raises when the coordinator holds no Snapshot by then; the
\* handler catches and logs that.
NewTokenDone(i) ==
    /\ tasks[i].pc = "await"
    /\ tasks[i].kind = "cloud_newtoken"
    /\ \E resp \in NewTokenResponses(device) :
          /\ device' \in DeviceAfter(device, tasks[i].req, resp)
          /\ LET r == ApiRequest(resp)
             IN  IF r.has /\ r.status = 200 /\ r.text # <<>> /\ IsSnapshot(data)
                 THEN /\ data' = [data EXCEPT !.settings.iot.CLtoken = Strip(r.text)]
                      /\ refreshRequested' = TRUE
                      /\ tasks' = [tasks EXCEPT ![i].pc = "refresh", ![i].acked = Acknowledged(tasks[i].req, resp)]
                 ELSE /\ UNCHANGED <<data, refreshRequested>>
                      /\ tasks' = [tasks EXCEPT ![i].pc = "done", ![i].acked = Acknowledged(tasks[i].req, resp)]
    /\ UNCHANGED <<now, setupPc, entry_data, settings, last_update_success,
                   snapCount, poll, last_press, call, sensor, bitop, pit, entries, store>>

\* The monotonic clock advances.
Tick ==
    /\ now < MaxTime
    /\ now' = now + 1
    /\ UNCHANGED <<device, setupPc, entry_data, settings, data, last_update_success,
                   snapCount, poll, refreshRequested, tasks, last_press, call, sensor, bitop, pit, entries, store>>

----------------------------------------------------------------------------
\* The device client called on its own, with every kind of response.

NoCall == [op |-> "none"]

\* What the device may answer to a write of the client.
ClientSetResponses ==
    WriteResponses({200, 404, 500},
    { TrueText, <<"T", "r", "u", "e">>, <<"T", "R", "U", "E">>,
      <<" ", "t", "r", "u", "e">>, <<"t", "r", "u", "e", "\n">>,
      <<"\t", "T", "r", "u", "e", " ", "\n">>,
      <<"f", "a", "l", "s", "e">>, <<>>, <<" ">>, <<"t", "r", "u">>,
      <<"t", "r", "u", "e", "1">>, <<"t", " ", "r", "u", "e">>, <<"o", "k">> })

\* a client that sends the request again after a transport error or a timeout
RequestsSentRetrying(resp) == IF resp.net # "ok" THEN 2 ELSE 1

\* WLANThermoApi._get and _request: the HTTP requests sent by one call that
\* ended with resp.  The body holds one session.get (one req) outside any
\* loop, and each branch after it returns.
RequestsSent(resp) == 1

\* get_data, get_settings, get_info, get_bluetooth, get_push
ClientRead ==
    /\ \E endpoint \in {"/data", "/settings", "/info", "/getbluetooth", "/getpush"},
          resp \in GetResponses({200, 404, 500},
                                {EmptyBody, MalformedBody, DataPayload(DeviceInit, 50),
                                 SettingsPayload(DeviceInit)}) :
          call' = [op |-> "get", endpoint |-> endpoint, resp |-> resp,
                   requests |-> RequestsSent(resp), result |-> ApiGet(resp)]
    /\ UNCHANGED <<now, device, setupPc, entry_data, settings, data, last_update_success,
                   snapCount, poll, refreshRequested, tasks, last_press, sensor, bitop, pit, entries, store>>

\* async_set_channel, async_set_pitmaster, async_set_pid_profile,
\* async_set_bluetooth, async_set_push, async_set_iot
ClientWrite ==
    /\ \E endpoint \in {"/setchannels", "/setpitmaster", "/setpid", "/setbluetooth",
                          "/setpush", "/setIoT"},
          resp \in ClientSetResponses :
          call' = [op |-> "set", endpoint |-> endpoint, resp |-> resp,
                   requests |-> RequestsSent(resp), result |-> AsyncSet(resp)]
    /\ UNCHANGED <<now, device, setupPc, entry_data, settings, data, last_update_success,
                   snapCount, poll, refreshRequested, tasks, last_press, sensor, bitop, pit, entries, store>>


Buttons == {"telegram_test", "pushover_test", "cloud_newtoken"}

\* WlanthermoChannelTimeLeftSensor.__init__ under the option
\* show_inactive_unavailable: an empty history, no value read yet.
NewSensor(show_inactive) ==
    [show_inactive |-> show_inactive, reads |-> 0, history |-> <<>>, native_value |-> NoData]

\* The state after construction: the API client exists, the first /settings
\* fetch of async_setup_entry is in flight.
\* The sets of entry_data["entities"]: button.py line 30, switch.py lines 24-26.
EntityStores == {"buttons", "pidprofile_switch", "push_switch", "bluetooth_switch"}

\* The configured entries.
EntryIds == {"entry_a", "entry_b"}

\* The parts of the state that the coordinator of one entry does not touch:
\* no bit-mask helper applied yet, WlanthermoPitmasterTemperatureSensor not
\* yet read with no Snapshot published, and hass.data[DOMAIN] holding none of
\* the entries before setup; the button and switch platforms not yet set up,
\* with no key in the entity store and no entity created.
Untouched ==
    /\ bitop = [op |-> "none"]
    /\ pit = [snapshot |-> NoData, reads |-> 0, native_value |-> NoData, available |-> FALSE]
    /\ entries = [e \in EntryIds |-> NoData]
    /\ store = [s \in EntityStores |-> [keys |-> {}, created |-> <<>>]]

Init ==
    /\ Untouched
    /\ now = 0
    /\ device = DeviceInit
    /\ setupPc = "settings"
    /\ entry_data = [registered |-> FALSE, platforms_setup |-> FALSE, start_listener |-> FALSE,
                     sensor_entities |-> FALSE]
    /\ settings = NoData
    /\ data = NoData
    /\ last_update_success = TRUE
    /\ snapCount = 0
    /\ poll = [s \in Slots |-> IdlePoll]
    /\ refreshRequested = FALSE
    /\ tasks = <<>>
    /\ last_press = [b \in Buttons |-> 0]
    /\ call = NoCall
    /\ sensor = NewSensor(TRUE)

\* A PID switch is turned while the refresh cycles run.
SyncTurnPidOpl == Len(tasks) < MaxSyncWrites /\ TurnPidOpl

\* The coordinator, with the PID switch that writes to the Settings cache.
Next ==
    \/ SetupSettings
    \/ SetupFinish
    \/ TimerRefresh
    \/ RequestedRefresh
    \/ \E s \in Slots : PollData(s)
    \/ \E s \in Slots : PollSettings(s)
    \/ SyncTurnPidOpl
    \/ \E i \in 1..Len(tasks) : SwitchWriteDone(i)

Spec == Init /\ [][Next]_vars

\* The state once setup has finished with the device online, the clock at t.
SetupDoneAt(t) ==
    /\ Untouched
    /\ now = t
    /\ device = DeviceInit
    /\ setupPc = "done"
    /\ entry_data = [registered |-> TRUE, platforms_setup |-> TRUE, start_listener |-> FALSE,
                     sensor_entities |-> TRUE]
    /\ settings = SettingsFromJson(SettingsPayload(DeviceInit))
    /\ data = WlanthermoData(DataPayload(DeviceInit, 50), 1)
    /\ last_update_success = TRUE
    /\ snapCount = 1
    /\ poll = [s \in Slots |-> IdlePoll]
    /\ refreshRequested = FALSE
    /\ tasks = <<>>
    /\ last_press = [b \in Buttons |-> 0]
    /\ call = NoCall

OnlineAt(t) == SetupDoneAt(t) /\ sensor = NewSensor(TRUE)

\* The command dispatcher: every action entry point and the return of its
\* write, with the device dropping off the network in between.
NextDispatch ==
    \/ TurnPidOpl
    \/ TurnPidLink
    \/ TurnTelegramEnabled
    \/ TurnPushoverEnabled
    \/ TurnBluetoothEnabled
    \/ TurnBluetoothProbe
    \/ PressTelegramTest
    \/ PressPushoverTest
    \/ PressNewToken
    \/ \E i \in 1..Len(tasks) : SwitchWriteDone(i)
    \/ \E i \in 1..Len(tasks) : TestWriteDone(i)
    \/ \E i \in 1..Len(tasks) : NewTokenDone(i)
    \/ OfflineRefresh

InitDispatch == OnlineAt(DEBOUNCE_SECONDS)

NextClient == ClientRead \/ ClientWrite

SpecClient == Init /\ [][NextClient]_vars

SpecDispatch == InitDispatch /\ [][NextDispatch]_vars

\* The debounced buttons under the running clock.
NextDebounce ==
    \/ Tick
    \/ PressTelegramTest
    \/ PressPushoverTest
    \/ PressNewToken
    \/ \E i \in 1..Len(tasks) : TestWriteDone(i)
    \/ \E i \in 1..Len(tasks) : NewTokenDone(i)

InitDebounce == OnlineAt(0)

SpecDebounce == InitDebounce /\ [][NextDebounce]_vars

----------------------------------------------------------------------------
\* Properties of the refresh cycle.

\* A step of the cycle on slot s.
CycleStep(s) == poll[s].pc # "idle" /\ poll'[s] # poll[s]

\* The step that ends a cycle whose /data fetch failed or came back empty.
FailedFetch(s) == poll[s].pc = "data" /\ poll'[s].pc = "idle"

\* The step that ends a cycle whose /data was fetched but does not parse.
ParseFailed(s) ==
    /\ poll[s].pc = "settings"
    /\ poll[s].raw_data.kind # "telemetry"
    /\ poll'[s].pc = "idle"

\* C1 as stated: a cycle whose /data fetch fails leaves the coordinator holding
\* exactly the Snapshot it held before the cycle.
C1_SnapshotKeptOnFailedFetch ==
    [][\A s \in Slots : FailedFetch(s) => data' = data]_vars

\* C1 amended: a cycle whose /data fetch fails or returns an empty payload puts
\* the coordinator in the Offline state by replacing coordinator.data with None:
\* the previous Snapshot is dropped as a whole, no new Snapshot is built, the
\* update counts as successful and the Settings cache is untouched.
C1_FailedFetchGoesOffline ==
    [][\A s \in Slots :
          FailedFetch(s) =>
             /\ data' = NoData
             /\ last_update_success'
             /\ snapCount' = snapCount
             /\ settings' = settings]_vars

\* A Snapshot was published, and the only cycles so far ran on the timer, the
\* last of them ending Offline at "return None" of line 93.
C1_Witness ==
    /\ snapCount >= 1
    /\ data = NoData
    /\ poll["timer"].returned = "line 93"
    /\ poll["request"].returned = "never"

C3_UpdateNeverRaises ==
    /\ last_update_success
    /\ data.kind \in {"none", "snapshot"}

\* A cycle in which both payloads failed to parse has ended, with None.
C3_Witness ==
    \E s \in Slots :
       /\ poll[s].returned = "line 107"
       /\ poll[s].raw_settings.kind = "malformed"
       /\ data = NoData
       /\ last_update_success

\* C4 as stated: a cycle whose /data does not parse ends like a cycle whose
\* /data fetch failed: Offline, and with the Settings cache it started from.
C4_ParseFailureLikeFailedFetch ==
    [][\A s \in Slots :
          ParseFailed(s) =>
             /\ data' = NoData
             /\ last_update_success'
             /\ settings' = settings]_vars

\* C4 amended: a cycle whose /data was fetched but does not parse ends in the
\* same coordinator state as a failed fetch (Offline, no Snapshot built, nothing
\* raised), but /settings has been fetched by then: the Settings cache is
\* replaced when that fetch succeeded and parsed, and is unchanged otherwise.
C4_ParseFailureGoesOffline ==
    [][\A s \in Slots :
          ParseFailed(s) =>
             /\ data' = NoData
             /\ last_update_success'
             /\ snapCount' = snapCount
             /\ settings' = IF poll'[s].raw_settings.kind = "settings"
                            THEN SettingsFromJson(poll'[s].raw_settings)
                            ELSE settings]_vars

\* A cycle whose /data did not parse has ended Offline with the Settings it
\* fetched in the cache.
C4_Witness ==
    \E s \in Slots :
       /\ poll[s].returned = "line 107"
       /\ poll[s].raw_settings.kind = "settings"
       /\ settings = SettingsFromJson(poll[s].raw_settings)
       /\ data = NoData

----------------------------------------------------------------------------
\* Properties of the device client.

\* The text reads "true" once leading and trailing whitespace is dropped and
\* case is ignored.
ReadsTrue(text) ==
    \E i \in 1..Len(text) :
       /\ i + 3 <= Len(text)
       /\ \A k \in 1..(i - 1) : text[k] \in Whitespace
       /\ \A k \in (i + 4)..Len(text) : text[k] \in Whitespace
       /\ text[i] \in {"t", "T"}
       /\ text[i + 1] \in {"r", "R"}
       /\ text[i + 2] \in {"u", "U"}
       /\ text[i + 3] \in {"e", "E"}

\* C5: a read returns the decoded payload exactly when the request completed
\* within the timeout with status 200 and a JSON-decodable body; in every
\* other case it returns None; it never raises.
C5_ReadReturnsPayloadIffOk ==
    call.op = "get" =>
       /\ call.result.kind # "raise"
       /\ IF call.resp.net = "ok" /\ call.resp.status = 200 /\ call.resp.json
          THEN call.result = call.resp.body
          ELSE call.result = NoData

\* get_push got status 404 with a decodable body, and returned None.
C5_Witness ==
    /\ call.op = "get"
    /\ call.endpoint = "/getpush"
    /\ call.resp.net = "ok"
    /\ call.resp.status = 404
    /\ call.resp.json
    /\ call.resp.body.kind = "telemetry"
    /\ call.result = NoData

\* C6: on every write endpoint the write reports success exactly when the
\* response has status 200 and a body that, trimmed and lower-cased, is "true";
\* any other response, a transport error and a timeout report failure with a
\* falsy value, and nothing is raised.
C6_WriteSucceedsIffTrue ==
    call.op = "set" =>
       /\ call.result \in {"True", "False", "''"}
       /\ Success(call.result) <=>
             /\ call.resp.net = "ok"
             /\ call.resp.status = 200
             /\ ReadsTrue(call.resp.text)

\* /setIoT answered 200 with "\tTrue \n": success.
C6_Witness ==
    /\ call.op = "set"
    /\ call.endpoint = "/setIoT"
    /\ call.resp.status = 200
    /\ call.resp.text = <<"\t", "T", "r", "u", "e", " ", "\n">>
    /\ call.result = "True"

----------------------------------------------------------------------------
\* Properties of the command dispatcher.

TaskIds == 1..Len(tasks)

\* The step in which the write of task i returns to its handler.
Returned(i) == tasks[i].pc = "await" /\ tasks'[i].pc # "await"

C8_FailedWriteChangesNothing ==
    [][\A i \in TaskIds :
          Returned(i) /\ ~tasks'[i].acked =>
             /\ tasks'[i].pc = "done"
             /\ tasks'[i].req = tasks[i].req
             /\ Len(tasks') = Len(tasks)
             /\ \A j \in TaskIds \ {i} : tasks'[j] = tasks[j]
             /\ refreshRequested' = refreshRequested
             /\ settings' = settings
             /\ data' = data
             /\ UNCHANGED <<poll, last_press, snapCount, last_update_success>>]_vars

\* The Pushover switch was turned on, the write failed, and the Snapshot still
\* shows Pushover enabled while the device has it disabled; no re-sync is asked.
C8_Witness ==
    \E i \in TaskIds :
       /\ tasks[i].kind = "pushover_enabled"
       /\ tasks[i].pc = "done"
       /\ ~tasks[i].acked
       /\ data.push.pushover.enabled
       /\ ~device.push.pushover.enabled
       /\ ~refreshRequested

\* An invocation that reached the device write.
Wrote(t) == t.pc # "suppressed"

\* Two invocations of the same action less than DEBOUNCE_SECONDS apart.
SameWindow(i, j) ==
    /\ i < j
    /\ tasks[i].kind = tasks[j].kind
    /\ tasks[i].kind \in Buttons
    /\ tasks[j].time - tasks[i].time < DEBOUNCE_SECONDS

Suppressed ==
    /\ Len(tasks') = Len(tasks) + 1
    /\ tasks'[Len(tasks')].pc = "suppressed"

C10_AtMostOneWriteInFlight ==
    Cardinality({i \in TaskIds : tasks[i].pc = "await"}) <= 1

----------------------------------------------------------------------------
\* Synchronisation with a device that stays reachable: every request of a
\* refresh cycle is answered with the values the device holds when it serves
\* the request, and the answer is taken by the cycle some time later.

Reachable(responses) == { r \in responses : Truthy(ApiGet(r)) /\ ApiGet(r).kind # "malformed" }

\* The scheduled refresh starts.
SyncTimerRefresh ==
    /\ setupPc = "done"
    /\ poll["timer"].pc = "idle"
    /\ StartCycle("timer")
    /\ UNCHANGED <<now, device, setupPc, entry_data, settings, data, last_update_success,
                   snapCount, refreshRequested, tasks, last_press, call, sensor, bitop, pit, entries, store>>

\* The refresh asked for by async_request_refresh starts.
SyncRequestedRefresh ==
    /\ setupPc = "done"
    /\ refreshRequested
    /\ poll["request"].pc = "idle"
    /\ refreshRequested' = FALSE
    /\ StartCycle("request")
    /\ UNCHANGED <<now, device, setupPc, entry_data, settings, data, last_update_success,
                   snapCount, tasks, last_press, call, sensor, bitop, pit, entries, store>>

\* async_update_data, line 90: the device serves GET /data and the cycle goes
\* on to GET /settings.
SyncData(s) ==
    /\ poll[s].pc = "data"
    /\ \E resp \in Reachable(DataResponses(device)) :
          poll' = [poll EXCEPT ![s] = PollState("settings", ApiGet(resp), NoData, "running")]
    /\ UNCHANGED <<now, device, setupPc, entry_data, settings, data, last_update_success,
                   snapCount, refreshRequested, tasks, last_press, call, sensor, bitop, pit, entries, store>>

\* async_update_data, line 97: the device serves GET /settings; the answer is
\* on its way.
SyncSettings(s) ==
    /\ poll[s].pc = "settings"
    /\ \E resp \in Reachable(SettingsResponses(device)) :
          poll' = [poll EXCEPT ![s] =
                      PollState("reply", poll[s].raw_data, ApiGet(resp), "running")]
    /\ UNCHANGED <<now, device, setupPc, entry_data, settings, data, last_update_success,
                   snapCount, refreshRequested, tasks, last_press, call, sensor, bitop, pit, entries, store>>

\* async_update_data, lines 98-103: the answer to GET /settings arrives, the
\* Snapshot is built and the coordinator takes it.  The Snapshot objects are
\* not told apart here.
SyncPublish(s) ==
    /\ poll[s].pc = "reply"
    /\ settings' = SettingsAfterFetch(settings, poll[s].raw_settings)
    /\ LET result == UpdateResult(poll[s].raw_data, snapCount)
       IN  /\ data' = CoordinatorData(result, data)
           /\ last_update_success' = (result.kind # "raise")
    /\ poll' = [poll EXCEPT ![s] = PollState("idle", NoData, poll[s].raw_settings, "line 103")]
    /\ UNCHANGED <<now, device, setupPc, entry_data, snapCount, refreshRequested, tasks,
                   last_press, call, sensor, bitop, pit, entries, store>>

\* A switch that writes to the Snapshot is turned while the cycles run.
SyncTurnTelegramEnabled == Len(tasks) < MaxSyncWrites /\ TurnTelegramEnabled

SyncWriteDone == \E i \in 1..Len(tasks) : SwitchWriteDone(i)

NextSync ==
    \/ SyncTimerRefresh
    \/ SyncRequestedRefresh
    \/ \E s \in Slots : SyncData(s)
    \/ \E s \in Slots : SyncSettings(s)
    \/ \E s \in Slots : SyncPublish(s)
    \/ SyncTurnPidOpl
    \/ SyncTurnTelegramEnabled
    \/ SyncWriteDone

\* The timer keeps firing, a requested refresh is started, every request is
\* answered and every answer is taken.
FairSync ==
    /\ WF_vars(SyncTimerRefresh)
    /\ WF_vars(SyncRequestedRefresh)
    /\ \A s \in Slots : WF_vars(SyncData(s)) /\ WF_vars(SyncSettings(s)) /\ WF_vars(SyncPublish(s))
    /\ WF_vars(SyncWriteDone)

SpecSync == OnlineAt(0) /\ [][NextSync]_vars /\ FairSync

\* The Settings cache and the Snapshot show the device's configuration.
Consistent ==
    /\ settings.kind = "settings"
    /\ settings.pid = device.pid
    /\ settings.iot = device.iot
    /\ IsSnapshot(data)
    /\ data.push = device.push
    /\ data.bluetooth = device.bluetooth
    /\ data.settings.iot = device.iot

\* The last write has returned, one write was acknowledged, none can follow.
WritesOver ==
    /\ Len(tasks) = MaxSyncWrites
    /\ \A i \in 1..Len(tasks) : tasks[i].pc # "await"
    /\ \E i \in 1..Len(tasks) : tasks[i].acked

----------------------------------------------------------------------------
\* Properties of the published Snapshot and of the cycles that publish it.

\* C12: refresh cycles of one device never overlap: the cycle started by the
\* timer and the cycle started by a refresh request are never in progress at
\* the same time.
C12_PollCyclesNeverOverlap == ActiveCycles <= 1

\* C13: a published Snapshot is read-only: coordinator.data changes only by
\* being replaced as a whole, by None or by the Snapshot of a later cycle,
\* never by a change to a field of the Snapshot it holds.
C13_SnapshotReadOnly ==
    [][IsSnapshot(data) /\ data' # data =>
          \/ data' = NoData
          \/ data'.id # data.id]_vars

----------------------------------------------------------------------------
\* Setup.

\* Every request ends within its timeout: the step that takes its outcome
\* happens, and setup goes on after it.
FairSetup ==
    /\ WF_vars(SetupSettings)
    /\ WF_vars(PollData("timer"))
    /\ WF_vars(PollSettings("timer"))
    /\ WF_vars(SetupFinish)

SpecSetup == Init /\ [][Next]_vars /\ FairSetup

\* The step in which async_setup_entry returns True.
SetupReturns == setupPc # "done" /\ setupPc' = "done"

\* C14: setup always terminates: whatever the initial /settings fetch and the
\* first poll give, async_setup_entry completes and returns with the entry data
\* registered and nothing raised; when the first poll gave no Snapshot the
\* coordinator is Offline at that point.
C14_SetupTerminates ==
    /\ <>(setupPc = "done")
    /\ [](setupPc = "done" => entry_data.registered)
    /\ [][SetupReturns =>
             /\ entry_data'.registered
             /\ settings'.kind \in {"none", "settings"}
             /\ last_update_success'
             /\ poll["timer"].returned # "line 103" => Offline /\ data' = NoData]_vars

\* Setup has returned after a failed initial /settings fetch and a failed first
\* poll: the entry is registered and the coordinator is Offline.
C14_Witness ==
    /\ setupPc = "done"
    /\ entry_data.registered
    /\ settings = NoData
    /\ data = NoData
    /\ snapCount = 0
    /\ poll["timer"].returned = "line 93"
    /\ poll["request"].returned = "never"

\* C15: with the device offline during setup the creation of the sensor
\* entities is deferred, not lost: none is created while no Snapshot exists,
\* and once setup is over and a Snapshot is published they exist.
C15_DeferredSensorsCreated ==
    /\ entry_data.sensor_entities => snapCount >= 1
    /\ setupPc = "done" /\ IsSnapshot(data) => entry_data.sensor_entities

----------------------------------------------------------------------------
\* The forecast engine: WlanthermoChannelTimeLeftSensor (sensor.py).
\* Temperatures are whole degrees and time.time() whole seconds; a time-left
\* value is held in hundredths of a minute.

\* a history that drops the newest sample when full
DequeAppendDropNewest(h, x) ==
    IF Len(h) >= HISTORY_MAXLEN THEN SubSeq(h, 1, Len(h) - 1) \o <<x>> ELSE Append(h, x)

\* collections.deque(maxlen=60).append
DequeAppend(h, x) ==
    IF Len(h) >= HISTORY_MAXLEN THEN Tail(h) \o <<x>> ELSE Append(h, x)

\* WlanthermoChannelTimeLeftSensor.available
Available(success, d, show_inactive) ==
    /\ success
    /\ d # NoData
    /\ ~(d.temp = 999 /\ show_inactive)

\* a window that leaves out the sample exactly window_seconds old
RecentOpen(h, window_start) == SelectSeq(h, LAMBDA x : x[1] > window_start)

\* recent = [x for x in self._history if x[0] >= window_start]
Recent(h, window_start) == SelectSeq(h, LAMBDA x : x[1] >= window_start)

\* round(n / d, 2) for n >= 0 and d > 0, in hundredths: to the nearest, ties
\* to the even one.
Round2(n, d) ==
    LET q == (100 * n) \div d
        r == (100 * n) % d
    IN  IF 2 * r < d THEN q
        ELSE IF 2 * r > d THEN q + 1
        ELSE IF q % 2 = 0 THEN q ELSE q + 1

Minutes(hundredths) == [kind |-> "minutes", hundredths |-> hundredths]

\* the estimate without the "dt <= 0 or dtemp <= 0" test and without max(.., 0)
TimeLeftUnguarded(recent, temp, target) ==
    IF Len(recent) < 2 THEN NoData
    ELSE LET dt    == recent[Len(recent)][1] - recent[1][1]
             dtemp == recent[Len(recent)][2] - recent[1][2]
         IN  IF target = <<>> \/ dt = 0 \/ dtemp = 0 THEN NoData
             ELSE IF (target[1] - temp) * dt * dtemp < 0
                  THEN Minutes(0 - 1)
                  ELSE Minutes(Round2((target[1] - temp) * dt, dtemp * 60))

\* the estimate answering 0 when the window holds a single sample
TimeLeftZeroWhenShort(recent, temp, target) ==
    IF Len(recent) < 2 THEN Minutes(0)
    ELSE LET dt    == recent[Len(recent)][1] - recent[1][1]
             dtemp == recent[Len(recent)][2] - recent[1][2]
         IN  IF dt <= 0 \/ dtemp <= 0 THEN Minutes(0)
             ELSE IF target = <<>> THEN NoData
             ELSE IF target[1] - temp <= 0 THEN Minutes(0)
             ELSE Minutes(Round2((target[1] - temp) * dt, dtemp * 60))

\* the estimate testing the target before the direction of the window
TimeLeftTargetFirst(recent, temp, target) ==
    IF Len(recent) < 2 \/ target = <<>> THEN NoData
    ELSE LET dt    == recent[Len(recent)][1] - recent[1][1]
             dtemp == recent[Len(recent)][2] - recent[1][2]
         IN  IF dt <= 0 \/ dtemp <= 0 THEN Minutes(0)
             ELSE IF target[1] - temp <= 0 THEN Minutes(0)
             ELSE Minutes(Round2((target[1] - temp) * dt, dtemp * 60))

\* native_value, lines 271-286: the estimate from the samples in the window
TimeLeft(recent, temp, target) ==
    IF Len(recent) < 2 THEN NoData
    ELSE LET dt    == recent[Len(recent)][1] - recent[1][1]
             dtemp == recent[Len(recent)][2] - recent[1][2]
         IN  IF dt <= 0 \/ dtemp <= 0 THEN Minutes(0)
             ELSE IF target = <<>> THEN NoData
             ELSE IF target[1] - temp <= 0 THEN Minutes(0)
             ELSE Minutes(Round2((target[1] - temp) * dt, dtemp * 60))

\* native_value read when time.time() gives t
NativeValue(t) ==
    /\ sensor' =
          IF ~Available(last_update_success, data, sensor.show_inactive)
          THEN [sensor EXCEPT !.reads = @ + 1, !.native_value = NoData]
          ELSE LET history == DequeAppend(sensor.history, <<t, data.temp>>)
                   recent  == Recent(history, t - WINDOW_SECONDS)
               IN  [sensor EXCEPT !.reads = @ + 1,
                                  !.history = history,
                                  !.native_value = TimeLeft(recent, data.temp, data.max)]
    /\ UNCHANGED <<now, device, setupPc, entry_data, settings, data, last_update_success,
                   snapCount, poll, refreshRequested, tasks, last_press, call, bitop, pit,
                   entries, store>>

\* The temperatures the channel reports.
ChannelTemps == {50, 60, 999}

\* A whole refresh that publishes the channel as the device reports it.  The
\* Snapshot objects are not told apart here.
ChannelRefresh ==
    /\ setupPc = "done"
    /\ poll["timer"].pc = "idle"
    /\ \E temp \in ChannelTemps, max \in {<<>>, <<55>>, <<70>>} :
          /\ device' = [device EXCEPT !.max = max]
          /\ data' = CoordinatorData(UpdateResult(DataPayload(device', temp), snapCount), data)
    /\ UNCHANGED <<now, setupPc, entry_data, settings, last_update_success, snapCount, poll,
                   refreshRequested, tasks, last_press, call, sensor, bitop, pit, entries, store>>

\* The state is read at any reading of the wall clock.
ForecastRead == sensor.reads < MaxReads /\ \E t \in {0, 300, 301} : NativeValue(t)

NextForecast ==
    \/ ChannelRefresh
    \/ OfflineRefresh
    \/ ForecastRead

InitForecast == SetupDoneAt(0) /\ \E show_inactive \in BOOLEAN : sensor = NewSensor(show_inactive)

SpecForecast == InitForecast /\ [][NextForecast]_vars

\* The state is read once a second while the channel keeps its temperature.
BufferRead == sensor.reads < MaxBufferReads /\ NativeValue(sensor.reads)

SpecBuffer == InitForecast /\ [][BufferRead]_vars

----------------------------------------------------------------------------
\* Claims on the forecast engine.

\* A step that reads the state, and one that reads it and stores a sample.
ReadStep == sensor'.reads = sensor.reads + 1
Sampled == ReadStep /\ sensor'.history # sensor.history

\* The latest sample of a history, the positions of the samples inside the
\* window that ends at it, and the first of them in the order of the buffer
\* (the earliest one whenever the clock did not run backwards).
Latest(h) == h[Len(h)]
InWindow(h) == {i \in 1..Len(h) : h[i][1] >= Latest(h)[1] - WINDOW_SECONDS}
Earliest(h) == h[CHOOSE i \in InWindow(h) : \A j \in InWindow(h) : i <= j]

Abs(x) == IF x < 0 THEN 0 - x ELSE x
Max0(x) == IF x < 0 THEN 0 ELSE x

\* v hundredths of a minute is n / d minutes rounded to 2 decimals.
IsRounded(v, n, d) == 2 * Abs(v * d - 100 * n) <= d

\* The formula of the forecast: with a warming window of at least 2 samples
\* and a target, the value is max((target - T1) / (((T1 - T0) / (t1 - t0)) * 60), 0)
\* rounded to 2 decimals.
ForecastFormula ==
    [][Sampled =>
        LET h  == sensor'.history
            t0 == Earliest(h)[1]
            T0 == Earliest(h)[2]
            t1 == Latest(h)[1]
            T1 == Latest(h)[2]
        IN  (Cardinality(InWindow(h)) >= 2 /\ t1 > t0 /\ T1 > T0 /\ data.max # <<>>) =>
                /\ sensor'.native_value.kind = "minutes"
                /\ IsRounded(sensor'.native_value.hundredths,
                             Max0(data.max[1] - T1) * (t1 - t0), (T1 - T0) * 60)]_vars

\* The read that leaves the samples (0, 50) and (300, 60) with target 70.
ExampleRead ==
    Sampled /\ sensor'.history = <<<<0, 50>>, <<300, 60>>>> /\ data.max = <<70>>

\* C16 as stated: the forecast follows the formula, a sample exactly
\* window_seconds old is inside the window, and the samples (0, 50) and
\* (300, 60) with target 70 and window 300 give 300.0 minutes.
C16_ForecastValueExample300 == /\ ForecastFormula
    /\ [][ExampleRead => sensor'.native_value = Minutes(30000)]_vars

\* C16 amended: the forecast follows the formula, a sample exactly
\* window_seconds old is inside the window, and the samples (0, 50) and
\* (300, 60) with target 70 and window 300 give 5.0 minutes.
C16_ForecastValue == /\ ForecastFormula
    /\ [][ExampleRead => sensor'.native_value = Minutes(500)]_vars

\* The example has been read: the sample 300 seconds old was used.
C16_Witness ==
    /\ sensor.history = <<<<0, 50>>, <<300, 60>>>>
    /\ data # NoData
    /\ data.max = <<70>>
    /\ sensor.native_value = Minutes(500)

\* C17: a read never gives a negative time left: the value is unknown or at
\* least 0; with 2 samples in the window and dt <= 0 or a temperature change
\* <= 0 it is exactly 0, and a warming channel at or above its target gives 0.
C17_ForecastNeverNegative ==
    /\ [](sensor.native_value # NoData => sensor.native_value.hundredths >= 0)
    /\ [][Sampled =>
            LET h     == sensor'.history
                dt    == Latest(h)[1] - Earliest(h)[1]
                dtemp == Latest(h)[2] - Earliest(h)[2]
            IN  Cardinality(InWindow(h)) >= 2 =>
                  /\ (dt <= 0 \/ dtemp <= 0) => sensor'.native_value = Minutes(0)
                  /\ (dt > 0 /\ dtemp > 0 /\ data.max # <<>> /\ Latest(h)[2] >= data.max[1])
                        => sensor'.native_value = Minutes(0)]_vars

\* A cooling window, a clock that stood still or ran backwards, and a warming
\* channel above its target have each been read as 0.
C17_Witness ==
    /\ sensor.native_value = Minutes(0)
    /\ Len(sensor.history) = 2
    /\ \/ sensor.history[2][2] < sensor.history[1][2]
       \/ sensor.history[2][1] <= sensor.history[1][1]
       \/ /\ sensor.history[2][1] > sensor.history[1][1]
          /\ sensor.history[2][2] > sensor.history[1][2]
          /\ data # NoData
          /\ data.max = <<55>>
          /\ data.temp = 60

\* C18: whatever the option show_inactive_unavailable is, no sample of the
\* history has the sentinel temperature 999.
C18_SentinelNeverBuffered ==
    \A i \in 1..Len(sensor.history) : sensor.history[i][2] # 999

\* C19: a read that stores a sample and leaves fewer than 2 samples inside the
\* window gives None, whether the buffer holds no other sample or only older
\* ones outside the window.
C19_UnknownBelowTwoSamples ==
    [][(Sampled /\ Cardinality(InWindow(sensor'.history)) < 2) =>
            sensor'.native_value = NoData]_vars

\* A second sample was read 301 seconds after the first, which is still in
\* the buffer and outside the window.
C19_Witness ==
    /\ Len(sensor.history) = 2
    /\ sensor.history[1][1] = 0
    /\ sensor.history[2][1] = 301
    /\ sensor.reads = 2
    /\ sensor.native_value = NoData
    /\ data # NoData
    /\ data.max # <<>>

\* C20: the history never holds more than 60 samples, and a sample stored in
\* a full history evicts exactly the oldest one: the others keep their order
\* and the new sample is the last.  Below 60 nothing is evicted.
C20_HistoryBoundedFifo ==
    /\ [](Len(sensor.history) <= 60)
    /\ [][Sampled =>
            LET h == sensor.history
                g == sensor'.history
            IN  IF Len(h) = 60
                THEN /\ Len(g) = 60
                     /\ \A i \in 1..59 : g[i] = h[i + 1]
                ELSE /\ Len(g) = Len(h) + 1
                     /\ \A i \in 1..Len(h) : g[i] = h[i]]_vars

\* A sample was stored in a full history: the oldest one, read at second 0,
\* is gone and the sample of second 1 is now the first.
C20_Witness ==
    /\ Len(sensor.history) = 60
    /\ sensor.reads > 60
    /\ sensor.history[1][1] = sensor.reads - 60
    /\ sensor.history[60][1] = sensor.reads - 1

----------------------------------------------------------------------------
\* Samples and Snapshots.

\* A whole refresh that publishes a new Snapshot with the channel connected.
ChannelPublish ==
    /\ setupPc = "done"
    /\ poll["timer"].pc = "idle"
    /\ snapCount <= MaxSnapshots
    /\ \E temp \in ChannelTemps \ {999}, max \in {<<>>, <<55>>, <<70>>} :
          /\ device' = [device EXCEPT !.max = max]
          /\ data' = CoordinatorData(UpdateResult(DataPayload(device', temp), snapCount + 1), data)
    /\ snapCount' = snapCount + 1
    /\ UNCHANGED <<now, setupPc, entry_data, settings, last_update_success, poll,
                   refreshRequested, tasks, last_press, call, sensor, bitop, pit, entries, store>>

NextSamples ==
    \/ ChannelPublish
    \/ ForecastRead

\* The sensor is created by sensor.async_setup_entry, after the first Snapshot.
SpecSamples == InitForecast /\ [][NextSamples]_vars

\* C21: the history holds one sample for each Snapshot published with the
\* channel connected, however often the value was read: as many samples as
\* Snapshots since the sensor exists, the first Snapshot counted or not.
C21_OneSamplePerSnapshot ==
    /\ Len(sensor.history) >= snapCount - 1
    /\ Len(sensor.history) <= snapCount

----------------------------------------------------------------------------
\* The bit-mask helpers applied to every mask and bit index in bounds.

\* The state of the coordinator, the dispatcher, the client and the sensor.
integrationVars == <<now, device, setupPc, entry_data, settings, data, last_update_success,
                     snapCount, poll, refreshRequested, tasks, last_press, call, sensor, store>>

SetBit ==
    /\ \E mask \in 0..MaxMask, bit \in 0..MaxBit :
          bitop' = [op |-> "set_bit", mask |-> mask, bit |-> bit,
                    result |-> set_bit(mask, bit)]
    /\ UNCHANGED <<integrationVars, pit, entries>>

ClearBit ==
    /\ \E mask \in 0..MaxMask, bit \in 0..MaxBit :
          bitop' = [op |-> "clear_bit", mask |-> mask, bit |-> bit,
                    result |-> clear_bit(mask, bit)]
    /\ UNCHANGED <<integrationVars, pit, entries>>

IsBitSet ==
    /\ \E mask \in 0..MaxMask, bit \in 0..MaxBit :
          bitop' = [op |-> "is_bit_set", mask |-> mask, bit |-> bit,
                    result |-> is_bit_set(mask, bit)]
    /\ UNCHANGED <<integrationVars, pit, entries>>

NextBits == SetBit \/ ClearBit \/ IsBitSet

SpecBits == Init /\ [][NextBits]_vars

\* The reference definition: bit i of the binary numeral of m, and the bit
\* positions that tell any two masks of the model apart.
BitOf(m, i) == (m \div (2 ^ i)) % 2
Positions == 0..(MaxMask + MaxBit)
OtherBitsKept(r, m, b) == \A i \in Positions \ {b} : BitOf(r, i) = BitOf(m, i)

\* C22: on every mask and bit index, set_bit sets the bit, clear_bit clears
\* it, both leave the other bits alone and are idempotent, is_bit_set tells
\* the bit of the reference definition, clear_bit undoes set_bit on a mask
\* whose bit was clear, and set_bit(0,3) = 8, clear_bit(8,3) = 0,
\* is_bit_set(8,3).
C22_BitMaskOperations ==
    /\ bitop.op = "set_bit" =>
          /\ bitop.result >= 0
          /\ BitOf(bitop.result, bitop.bit) = 1
          /\ is_bit_set(bitop.result, bitop.bit)
          /\ OtherBitsKept(bitop.result, bitop.mask, bitop.bit)
          /\ set_bit(bitop.result, bitop.bit) = bitop.result
          /\ BitOf(bitop.mask, bitop.bit) = 0 =>
                clear_bit(bitop.result, bitop.bit) = bitop.mask
    /\ bitop.op = "clear_bit" =>
          /\ bitop.result >= 0
          /\ BitOf(bitop.result, bitop.bit) = 0
          /\ ~is_bit_set(bitop.result, bitop.bit)
          /\ OtherBitsKept(bitop.result, bitop.mask, bitop.bit)
          /\ clear_bit(bitop.result, bitop.bit) = bitop.result
    /\ bitop.op = "is_bit_set" =>
          bitop.result = (BitOf(bitop.mask, bitop.bit) = 1)
    /\ (bitop.op = "set_bit" /\ bitop.mask = 0 /\ bitop.bit = 3) => bitop.result = 8
    /\ (bitop.op = "clear_bit" /\ bitop.mask = 8 /\ bitop.bit = 3) => bitop.result = 0
    /\ (bitop.op = "is_bit_set" /\ bitop.mask = 8 /\ bitop.bit = 3) => bitop.result = TRUE

\* clear_bit was applied to a mask with several bits set, the cleared one
\* among them.
C22_Witness ==
    /\ bitop.op = "clear_bit"
    /\ bitop.mask = 13
    /\ bitop.bit = 2
    /\ bitop.result = 9

----------------------------------------------------------------------------
\* Bluetooth probe switches with two Bluetooth devices.

TwoProbeDevices ==
    << [address |-> "aa:01", count |-> 2, selected |-> 1],
       [address |-> "bb:02", count |-> 2, selected |-> 2] >>

DeviceTwoProbes == [DeviceInit EXCEPT !.bluetooth.devices = TwoProbeDevices]

\* The probe switches created from the first Snapshot.
CreatedProbeSwitches ==
    UNION { { <<TwoProbeDevices[i].address, p>> : p \in 0..(TwoProbeDevices[i].count - 1) } :
            i \in 1..Len(TwoProbeDevices) }

\* Setup has finished with both Bluetooth devices in the first Snapshot.
InitBluetooth ==
    /\ Untouched
    /\ now = 0
    /\ device = DeviceTwoProbes
    /\ setupPc = "done"
    /\ entry_data = [registered |-> TRUE, platforms_setup |-> TRUE, start_listener |-> FALSE,
                     sensor_entities |-> TRUE]
    /\ settings = SettingsFromJson(SettingsPayload(DeviceTwoProbes))
    /\ data = WlanthermoData(DataPayload(DeviceTwoProbes, 50), 1)
    /\ last_update_success = TRUE
    /\ snapCount = 1
    /\ poll = [s \in Slots |-> IdlePoll]
    /\ refreshRequested = FALSE
    /\ tasks = <<>>
    /\ last_press = [b \in Buttons |-> 0]
    /\ call = NoCall
    /\ sensor = NewSensor(TRUE)

\* A Bluetooth device leaves the list the device reports, and a whole refresh
\* publishes the Snapshot without it.
ProbeDeviceLost ==
    /\ setupPc = "done"
    /\ poll["timer"].pc = "idle"
    /\ Len(device.bluetooth.devices) > 1
    /\ device' = [device EXCEPT !.bluetooth.devices = SubSeq(@, 1, Len(@) - 1)]
    /\ data' = CoordinatorData(UpdateResult(DataPayload(device', 50), snapCount), data)
    /\ UNCHANGED <<now, setupPc, entry_data, settings, last_update_success, snapCount, poll,
                   refreshRequested, tasks, last_press, call, sensor, bitop, pit, entries, store>>

\* async_turn_on / async_turn_off of a switch whose device the Snapshot no
\* longer lists.
TurnProbeOfLostDevice ==
    /\ CanInvoke
    /\ \E sw \in CreatedProbeSwitches, on \in BOOLEAN :
          /\ DeviceIndex(sw[1]) = 0
          /\ ProbeTurn(sw[1], sw[2], on)
    /\ UNCHANGED <<now, device, setupPc, entry_data, settings, last_update_success,
                   snapCount, poll, refreshRequested, last_press, call, sensor, bitop, pit, entries, store>>

NextBluetooth ==
    \/ TurnBluetoothProbe
    \/ TurnProbeOfLostDevice
    \/ ProbeDeviceLost
    \/ \E i \in 1..Len(tasks) : SwitchWriteDone(i)

SpecBluetooth == InitBluetooth /\ [][NextBluetooth]_vars

\* A step in which a probe switch was turned on or off, and the task it made.
ProbeToggled ==
    /\ Len(tasks') = Len(tasks) + 1
    /\ tasks'[Len(tasks')].kind = "bluetooth_probe"
Toggle == tasks'[Len(tasks')]

\* The Bluetooth section b differs from a at most in bit p of the mask of device i.
OnlyBitChanged(a, b, i, p) ==
    /\ b.enabled = a.enabled
    /\ Len(b.devices) = Len(a.devices)
    /\ \A j \in 1..Len(a.devices) : j # i => b.devices[j] = a.devices[j]
    /\ b.devices[i].address = a.devices[i].address
    /\ b.devices[i].count = a.devices[i].count
    /\ \A q \in Positions \ {p} :
          BitOf(b.devices[i].selected, q) = BitOf(a.devices[i].selected, q)

----------------------------------------------------------------------------
\* PID profile writes.

\* A step in which a PID switch was turned, and the task it made.
PidTurned ==
    /\ Len(tasks') = Len(tasks) + 1
    /\ tasks'[Len(tasks')].kind \in {"pid_opl", "pid_link"}
PidTask == tasks'[Len(tasks')]

\* The fields of a profile, and those a switch of the given kind may change.
ProfileFields == {"id", "aktor", "Kp", "opl", "link"}
Written(kind) == IF kind = "pid_opl" THEN "opl" ELSE "link"

\* C24: a PID switch sends to /setpid a list of one object, the whole profile
\* it changed: every field of the profile, the untouched ones with the values
\* they had.  The switch changes the one flag of that one profile; the other
\* profiles and the rest of the Settings cache stay as they were.
C24_PidWriteIsFullObject ==
    [][PidTurned =>
        /\ PidTask.req.endpoint = "/setpid"
        /\ Len(PidTask.req.payload) = 1
        /\ DOMAIN PidTask.req.payload[1] = ProfileFields
        /\ \E i \in 1..Len(settings.pid) :
              /\ settings' = [settings EXCEPT !.pid[i] = settings'.pid[i]]
              /\ \A f \in ProfileFields :
                    /\ PidTask.req.payload[1][f] = settings'.pid[i][f]
                    /\ f # Written(PidTask.kind) => settings'.pid[i][f] = settings.pid[i][f]]_vars

\* The link flag of profile 1 was set: the request holds the profile with its
\* id, actuator, gain and opl flag as they were.
C24_Witness ==
    /\ Len(tasks) >= 1
    /\ tasks[1].kind = "pid_link"
    /\ tasks[1].req.payload = << [id |-> 1, aktor |-> 3, Kp |-> 11, opl |-> FALSE, link |-> 1] >>
    /\ settings.kind = "settings"
    /\ settings.pid[1] = PidProfile(0, 0, FALSE, 0)

----------------------------------------------------------------------------
\* Debounce state of the three buttons.

\* A step in which a debounced button was pressed, and the task it made.
Pressed ==
    /\ Len(tasks') = Len(tasks) + 1
    /\ tasks'[Len(tasks')].kind \in Buttons
PressTask == tasks'[Len(tasks')]

\* C25: a press changes no stamp but that of its own button, and whether it
\* is suppressed depends on its own stamp alone: a press of one button right
\* after a press of another is not suppressed because of it.
C25_DebounceIsPerAction ==
    [][/\ \A b \in Buttons :
             last_press'[b] # last_press[b] =>
                 Pressed /\ PressTask.kind = b /\ PressTask.pc # "suppressed"
       /\ Pressed =>
             (PressTask.pc = "suppressed"
                 <=> now - last_press[PressTask.kind] < DEBOUNCE_SECONDS)]_vars

\* The Pushover test was accepted less than 5 time units after an accepted
\* Telegram test.
C25_Witness ==
    /\ Len(tasks) = 2
    /\ tasks[1].kind = "telegram_test"
    /\ tasks[2].kind = "pushover_test"
    /\ tasks[1].pc # "suppressed"
    /\ tasks[2].pc # "suppressed"
    /\ tasks[2].time - tasks[1].time < DEBOUNCE_SECONDS
    /\ last_press["telegram_test"] = tasks[1].time
    /\ last_press["pushover_test"] = tasks[2].time
    /\ last_press["cloud_newtoken"] = 0

----------------------------------------------------------------------------
\* Two configured entries.  entries[e] is hass.data[DOMAIN][e]: the api object
\* with its Settings cache and the coordinator with its Snapshot, or None
\* while hass.data[DOMAIN] has no key e.

\* The device each entry is configured for.
EntryDevice(e) == IF e = "entry_a" THEN DeviceInit ELSE DeviceTwoProbes

EntryData(api_settings, coordinator_data, success) ==
    [ api             |-> [settings |-> api_settings],
      coordinator     |-> [data |-> coordinator_data, last_update_success |-> success],
      platforms_setup |-> success ]

\* an unload that drops hass.data[DOMAIN] as a whole
HassDataPopDomain(d, entry_id) == [e \in DOMAIN d |-> NoData]

\* hass.data.get(DOMAIN, {}).pop(entry.entry_id, None)
HassDataPop(d, entry_id) == [d EXCEPT ![entry_id] = NoData]

\* hass.data.setdefault(DOMAIN, {})[entry.entry_id] = entry_data
HassDataSet(d, entry_id, entry) == [d EXCEPT ![entry_id] = entry]

\* One run of async_update_data of an entry, given the answers to its two
\* requests: the Settings cache and coordinator.data after it.
EntryCycle(entry, data_resp, settings_resp) ==
    LET raw_data == ApiGet(data_resp)
    IN  IF ~Truthy(raw_data)
        THEN EntryData(entry.api.settings,
                       CoordinatorData(NoData, entry.coordinator.data), TRUE)
        ELSE EntryData(SettingsAfterFetch(entry.api.settings, ApiGet(settings_resp)),
                       CoordinatorData(UpdateResult(raw_data, 1), entry.coordinator.data),
                       TRUE)

\* async_setup_entry of entry e: the initial /settings fetch, the first
\* refresh, and the registration in hass.data.
EntrySetup(e) ==
    /\ entries[e] = NoData
    /\ \E first \in SettingsResponses(EntryDevice(e)),
          data_resp \in DataResponses(EntryDevice(e)),
          settings_resp \in SettingsResponses(EntryDevice(e)) :
          LET created == EntryData(SettingsAfterFetch(NoData, ApiGet(first)), NoData, TRUE)
          IN  entries' = HassDataSet(entries, e, EntryCycle(created, data_resp, settings_resp))
    /\ UNCHANGED <<integrationVars, bitop, pit>>

\* A refresh of the coordinator of entry e.
EntryRefresh(e) ==
    /\ entries[e] # NoData
    /\ \E data_resp \in DataResponses(EntryDevice(e)),
          settings_resp \in SettingsResponses(EntryDevice(e)) :
          entries' = HassDataSet(entries, e, EntryCycle(entries[e], data_resp, settings_resp))
    /\ UNCHANGED <<integrationVars, bitop, pit>>

\* The Telegram switch of entry e is turned: _async_write sets the flag in the
\* Snapshot of its own coordinator.
EntryTurnTelegram(e) ==
    /\ entries[e] # NoData
    /\ IsSnapshot(entries[e].coordinator.data)
    /\ \E enabled \in BOOLEAN :
          entries' = [entries EXCEPT ![e].coordinator.data.push.telegram.enabled = enabled]
    /\ UNCHANGED <<integrationVars, bitop, pit>>

\* The opl switch of the first PID profile of entry e is turned: _async_set_opl
\* sets the flag in the Settings cache of its own api object.
EntryTurnPidOpl(e) ==
    /\ entries[e] # NoData
    /\ entries[e].api.settings # NoData
    /\ \E value \in BOOLEAN :
          entries' = [entries EXCEPT ![e].api.settings.pid[1].opl = value]
    /\ UNCHANGED <<integrationVars, bitop, pit>>

\* async_unload_entry of entry e.
EntryUnload(e) ==
    /\ entries[e] # NoData
    /\ entries' = HassDataPop(entries, e)
    /\ UNCHANGED <<integrationVars, bitop, pit>>

NextEntries ==
    \E e \in EntryIds :
       \/ EntrySetup(e)
       \/ EntryRefresh(e)
       \/ EntryTurnTelegram(e)
       \/ EntryTurnPidOpl(e)
       \/ EntryUnload(e)

SpecEntries == Init /\ [][NextEntries]_vars

\* C26: a poll cycle, a write, a setup or an unload of one entry leaves the
\* Settings cache, the coordinator, its Snapshot and the entry data of every
\* other entry as they were: no step changes what hass.data holds for more
\* than one entry, and an unload removes one entry.
C26_EntriesIndependent ==
    [][\E acting \in EntryIds :
          \A e \in EntryIds \ {acting} : entries'[e] = entries[e]]_vars

\* Entry b is set up and online with its Telegram flag turned on locally,
\* while entry a, once set up, is offline with its own Settings cache.
C26_Witness ==
    /\ entries["entry_a"] # NoData
    /\ entries["entry_b"] # NoData
    /\ entries["entry_a"].coordinator.data = NoData
    /\ entries["entry_a"].api.settings # NoData
    /\ IsSnapshot(entries["entry_b"].coordinator.data)
    /\ entries["entry_b"].coordinator.data.push.telegram.enabled
    /\ Len(entries["entry_b"].coordinator.data.bluetooth.devices) = 2

----------------------------------------------------------------------------
\* Requests of the device client.

----------------------------------------------------------------------------
\* The temperature sensor of a pitmaster (sensor.py, lines 1169-1241).

\* What the sensor reads of a Snapshot: the channels, the pitmasters with the
\* number of the channel each refers to (<<>> for None), and the system
\* section (None when the Snapshot has none).
Channel(number, temp) == [number |-> number, temp |-> temp]

\* The Snapshots published to the sensor: no channel, one channel, one at the
\* sentinel, or two; no pitmaster or pitmaster 0 referring to no channel, to
\* channel 1, 2 or to the missing channel 3; the system section absent,
\* offline or online.
PitSnapshots ==
    { NoData } \cup
    { [kind |-> "snapshot", channels |-> c, pitmasters |-> p, system |-> s] :
        c \in { <<>>, <<Channel(1, 50)>>, <<Channel(1, 999)>>,
                <<Channel(1, 50), Channel(2, 60)>> },
        p \in { <<>> } \cup { <<[id |-> 0, channel |-> ref]>> :
                                ref \in {<<>>, <<1>>, <<2>>, <<3>>} },
        s \in { NoData, [online |-> 0], [online |-> 2] } }

\* next((pm for pm in pitmasters if pm.id == id), None)
FirstPitmaster(pitmasters, id) ==
    IF \E i \in 1..Len(pitmasters) : pitmasters[i].id = id
    THEN pitmasters[CHOOSE i \in 1..Len(pitmasters) :
                       /\ pitmasters[i].id = id
                       /\ \A j \in 1..(i - 1) : pitmasters[j].id # id]
    ELSE NoData

\* for channel in channels: if channel.number == number: return channel
FirstChannel(channels, number) ==
    IF \E i \in 1..Len(channels) : channels[i].number = number
    THEN channels[CHOOSE i \in 1..Len(channels) :
                     /\ channels[i].number = number
                     /\ \A j \in 1..(i - 1) : channels[j].number # number]
    ELSE NoData

\* a lookup that falls back to the first channel of the Snapshot
PitmasterGetChannelFallback(d, pitmaster_id) ==
    IF d = NoData \/ d.channels = <<>> THEN NoData ELSE d.channels[1]

\* WlanthermoPitmasterTemperatureSensor._get_channel
PitmasterGetChannel(d, pitmaster_id) ==
    LET pitmasters == IF d = NoData THEN <<>> ELSE d.pitmasters
        channels   == IF d = NoData THEN <<>> ELSE d.channels
        pitmaster  == FirstPitmaster(pitmasters, pitmaster_id)
    IN  IF pitmaster = NoData THEN NoData
        ELSE IF pitmaster.channel = <<>> THEN NoData
        ELSE FirstChannel(channels, pitmaster.channel[1])

\* WlanthermoPitmasterTemperatureSensor.native_value.  The name show_inactive
\* of line 1224 is bound nowhere in the method or the module: it is looked up
\* only when temp == 999.0 holds, and the lookup raises NameError.
PitmasterNativeValue(d, pitmaster_id) ==
    LET channel == PitmasterGetChannel(d, pitmaster_id)
    IN  IF channel = NoData THEN NoData
        ELSE IF channel.temp = 999 THEN Raised
        ELSE [kind |-> "temp", temp |-> channel.temp]

\* WlanthermoPitmasterTemperatureSensor.available
PitmasterAvailable(success, d, pitmaster_id) ==
    /\ success
    /\ d # NoData
    /\ d.system # NoData
    /\ d.system.online # 0
    /\ PitmasterGetChannel(d, pitmaster_id) # NoData

\* A refresh publishes a Snapshot.
PitPublish ==
    /\ \E d \in PitSnapshots : pit' = [pit EXCEPT !.snapshot = d]
    /\ UNCHANGED <<integrationVars, bitop, entries>>

\* Home Assistant reads native_value and available of the sensor of pitmaster 0.
PitRead ==
    /\ pit.reads < MaxReads
    /\ pit' = [pit EXCEPT !.reads = @ + 1,
                          !.native_value = PitmasterNativeValue(pit.snapshot, 0),
                          !.available = PitmasterAvailable(last_update_success, pit.snapshot, 0)]
    /\ UNCHANGED <<integrationVars, bitop, entries>>

NextPitmaster == PitPublish \/ PitRead

SpecPitmaster == Init /\ [][NextPitmaster]_vars

\* The Snapshot lists pitmaster 0 with no channel, or with the number of a
\* channel the Snapshot does not list.
Unassociated(d) ==
    /\ d # NoData
    /\ \E i \in 1..Len(d.pitmasters) :
          /\ d.pitmasters[i].id = 0
          /\ \/ d.pitmasters[i].channel = <<>>
             \/ \A j \in 1..Len(d.channels) : d.channels[j].number # d.pitmasters[i].channel[1]

\* C29: when the pitmaster refers to no channel or to a channel the Snapshot
\* does not list, a read of its temperature sensor gives no value, the sensor
\* is unavailable, and nothing is raised.
C29_UnassociatedPitmaster ==
    [][(pit'.reads = pit.reads + 1 /\ Unassociated(pit.snapshot)) =>
            /\ pit'.native_value = NoData
            /\ pit'.available = FALSE]_vars

\* The pitmaster refers to channel 3 while the Snapshot lists channels 1 and 2
\* and the system is online: the sensor was read, gave None and is unavailable.
C29_Witness ==
    /\ pit.reads >= 1
    /\ pit.snapshot # NoData
    /\ Len(pit.snapshot.channels) = 2
    /\ Len(pit.snapshot.pitmasters) = 1
    /\ pit.snapshot.pitmasters[1].channel = <<3>>
    /\ pit.snapshot.system = [online |-> 2]
    /\ pit.native_value = NoData
    /\ pit.available = FALSE

----------------------------------------------------------------------------
\* Recovery from Offline.

\* The step that ends a cycle whose /data fetch gave a non-empty body, and the
\* one that ends a cycle whose body was telemetry.
FetchedData(s) == poll[s].pc = "settings" /\ poll'[s].pc = "idle"
FetchedTelemetry(s) == FetchedData(s) /\ poll[s].raw_data.kind = "telemetry"

\* C30 as stated: whatever the coordinator held before, a cycle whose /data
\* fetch succeeds publishes a new Snapshot and leaves the coordinator Online,
\* and one whose fetch fails leaves it Offline.
C30_SuccessfulFetchGoesOnline ==
    [][\A s \in Slots :
          /\ FetchedData(s) => IsSnapshot(data') /\ data'.id = snapCount + 1
          /\ FailedFetch(s) => data' = NoData]_vars

\* C30 amended: whatever the coordinator held before, a cycle whose /data
\* fetch succeeds with a body that maps to a Snapshot publishes a new Snapshot
\* and leaves the coordinator Online, whatever /settings answered; a cycle
\* whose fetch fails, or whose body does not map, leaves it Offline.
C30_OfflineIsRecoverable ==
    [][\A s \in Slots :
          /\ FetchedTelemetry(s) =>
                /\ IsSnapshot(data')
                /\ data'.id = snapCount + 1
                /\ snapCount' = snapCount + 1
                /\ last_update_success'
          /\ (FailedFetch(s) \/ ParseFailed(s)) => data' = NoData]_vars

\* Setup ended Offline, so that no sensor entity was created, and a later
\* cycle has published the first Snapshot.
C30_Witness ==
    /\ setupPc = "done"
    /\ ~entry_data.sensor_entities
    /\ IsSnapshot(data)
    /\ data.id = 1
    /\ poll["timer"].returned = "line 103"

----------------------------------------------------------------------------
\* Token rotation (button.py, lines 199-213).

\* A step in which POST /newtoken of task i returned.
NewTokenReturned(i) ==
    /\ tasks[i].kind = "cloud_newtoken"
    /\ tasks[i].pc = "await"
    /\ tasks'[i].pc # "await"

\* C31: when POST /newtoken is answered with status 200 and a non-empty body
\* (the device issued a token), the cached iot.CLtoken becomes the trimmed
\* body, which is the token the device now holds, and a coordinator re-sync is
\* requested; after any other response, a transport failure, or when storing
\* the token raises because the coordinator holds no Snapshot, the cached
\* data is unchanged, no re-sync is requested and the press ends normally.
C31_TokenRotation ==
    [][\A i \in 1..Len(tasks) :
          NewTokenReturned(i) =>
             IF tasks'[i].acked /\ IsSnapshot(data)
             THEN /\ IsSnapshot(data')
                  /\ data'.settings.iot.CLtoken = device'.iot.CLtoken
                  /\ data'.settings.iot.CLtoken # data.settings.iot.CLtoken
                  /\ refreshRequested'
                  /\ tasks'[i].pc = "refresh"
             ELSE /\ data' = data
                  /\ refreshRequested' = refreshRequested
                  /\ tasks'[i].pc = "done"]_vars

\* The device issued its first token, the press stored it trimmed and
\* requested the re-sync.
C31_Witness ==
    \E i \in 1..Len(tasks) :
       /\ tasks[i].kind = "cloud_newtoken"
       /\ tasks[i].pc = "refresh"
       /\ tasks[i].acked
       /\ IsSnapshot(data)
       /\ data.settings.iot.CLtoken = TokenText(1)
       /\ device.iot.CLtoken = TokenText(1)
       /\ refreshRequested

----------------------------------------------------------------------------
\* Entity discovery of the button and switch platforms (button.py, lines
\* 33-75; switch.py, lines 29-91).  A key of the set "bluetooth_switch" is a
\* pair: <<address, probe>> for f"{address}_{probe}" and
\* <<"bluetooth_enabled", -1>> for "bluetooth_enabled".

\* a discovery that creates an entity for every key, without the key test
NewKeysUnchecked(keys, have) == keys

\* "if key not in entity_store[..]: new_entities.append(cls(..));
\* entity_store[..].add(key)" over the keys in order: the keys that get an entity.
RECURSIVE NewKeys(_, _)
NewKeys(keys, have) ==
    IF keys = <<>> THEN <<>>
    ELSE IF Head(keys) \in have THEN NewKeys(Tail(keys), have)
    ELSE <<Head(keys)>> \o NewKeys(Tail(keys), have \cup {Head(keys)})

\* The entity store st after the keys were discovered for its set s.
Added(st, s, keys) ==
    LET new == NewKeys(keys, st[s].keys)
    IN  [st EXCEPT ![s] = [keys    |-> @.keys \cup {new[i] : i \in 1..Len(new)},
                           created |-> @.created \o new]]

\* f"{profile.id}_{key}" for profile in getattr(api.settings, "pid", []) and
\* key in ("opl", "link")
PidKeys(s) ==
    IF s.kind # "settings" THEN <<>>
    ELSE [k \in 1..(2 * Len(s.pid)) |->
            <<s.pid[(k + 1) \div 2].id, IF k % 2 = 1 THEN "opl" ELSE "link">>]

\* f"{address}_{probe}" for dev in bluetooth.devices, probe in range(count)
RECURSIVE ProbeKeys(_)
ProbeKeys(devices) ==
    IF devices = <<>> THEN <<>>
    ELSE [p \in 1..Head(devices).count |-> <<Head(devices).address, p - 1>>]
         \o ProbeKeys(Tail(devices))

\* _async_discover_entities of button.py, as the first call of
\* async_setup_entry and as the coordinator's listener.
DiscoverButtons ==
    /\ store' = IF ~Truthy(data) THEN store
                ELSE Added(store, "buttons",
                           <<"telegram_test", "pushover_test", "reload_integration",
                             "cloud_newtoken">>)
    /\ UNCHANGED <<now, device, setupPc, entry_data, settings, data, last_update_success,
                   snapCount, poll, refreshRequested, tasks, last_press, call, sensor,
                   bitop, pit, entries>>

\* _async_discover_entities of switch.py, as the first call of
\* async_setup_entry and as the coordinator's listener.
DiscoverSwitches ==
    /\ store' =
          IF ~Truthy(data) THEN store
          ELSE LET pid  == Added(store, "pidprofile_switch", PidKeys(settings))
                   push == Added(pid, "push_switch", <<"telegram_enabled", "pushover_enabled">>)
               IN  IF /\ data.bluetooth # NoData
                      /\ <<"bluetooth_enabled", -1>> \notin push["bluetooth_switch"].keys
                   THEN Added(push, "bluetooth_switch",
                              <<<<"bluetooth_enabled", -1>>>> \o ProbeKeys(data.bluetooth.devices))
                   ELSE push
    /\ UNCHANGED <<now, device, setupPc, entry_data, settings, data, last_update_success,
                   snapCount, poll, refreshRequested, tasks, last_press, call, sensor,
                   bitop, pit, entries>>

\* A whole refresh between two callbacks: the device, with one or two PID
\* profiles, with no Bluetooth section, one Bluetooth device or two, does not
\* answer (the coordinator holds None) or is published as the next Snapshot.
DiscoveryPublish ==
    /\ setupPc = "done"
    /\ \/ /\ data' = NoData
          /\ UNCHANGED <<device, settings, snapCount>>
       \/ /\ snapCount <= MaxSnapshots
          /\ \E dev \in { DeviceInit, DeviceTwoProbes,
                          [DeviceInit EXCEPT !.bluetooth = NoData],
                          [DeviceInit EXCEPT !.pid = <<PidProfile(0, 0, FALSE, 0)>>] } :
                /\ device' = dev
                /\ settings' = SettingsFromJson(SettingsPayload(dev))
                /\ data' = WlanthermoData(DataPayload(dev, 50), snapCount + 1)
          /\ snapCount' = snapCount + 1
    /\ UNCHANGED <<now, setupPc, entry_data, last_update_success, poll, refreshRequested,
                   tasks, last_press, call, sensor, bitop, pit, entries, store>>

NextDiscovery == DiscoverButtons \/ DiscoverSwitches \/ DiscoveryPublish

SpecDiscovery == OnlineAt(0) /\ [][NextDiscovery]_vars

\* No key occurs twice among the entities created for the set s.
CreatedOnce(s) ==
    \A i, j \in 1..Len(store[s].created) :
       store[s].created[i] = store[s].created[j] => i = j

\* C32: entity discovery is idempotent: whatever callbacks run and whatever
\* Snapshots are published in between, every button and switch key got at
\* most one entity, the keys of a set are those of the entities created for
\* it, and a callback that runs while the coordinator holds no Snapshot
\* creates no entity.
C32_DiscoveryIdempotent ==
    /\ [](\A s \in EntityStores :
            /\ CreatedOnce(s)
            /\ store[s].keys = {store[s].created[i] : i \in 1..Len(store[s].created)})
    /\ [][~IsSnapshot(data) /\ data' = data => store' = store]_vars

\* Both platforms have discovered their entities, a later Snapshot with a
\* second PID profile was published and discovered, and the coordinator has
\* gone Offline since.
C32_Witness ==
    /\ data = NoData
    /\ snapCount = 3
    /\ Len(store["buttons"].created) = 4
    /\ Len(store["pidprofile_switch"].created) = 4
    /\ store["pidprofile_switch"].created[1] = <<0, "opl">>
    /\ Len(store["push_switch"].created) = 2
    /\ Len(store["bluetooth_switch"].created) = 3

----------------------------------------------------------------------------
\* Probe switches of Bluetooth devices that appear later.

\* The listener of the switch platform is called after every published update
\* for as long as the entry is loaded.
SpecDiscoveryFair == SpecDiscovery /\ WF_vars(DiscoverSwitches)

\* The probes of the current Snapshot that have no probe switch.
MissingProbes ==
    IF IsSnapshot(data) /\ data.bluetooth # NoData
    THEN {ProbeKeys(data.bluetooth.devices)[i] : i \in 1..Len(ProbeKeys(data.bluetooth.devices))}
         \ store["bluetooth_switch"].keys
    ELSE {}

\* C36: every Bluetooth probe of every device of the current Snapshot
\* eventually has a probe switch: however the Snapshots change, the state in
\* which no probe of the current Snapshot lacks its switch keeps being
\* reached.
C36_ProbesEventuallyDiscovered == []<>(MissingProbes = {})

----------------------------------------------------------------------------
\* The cool-down of the debounced buttons over several presses.

\* async_press of the Telegram test button or of the cloud token button, any
\* number of times in a row.
RepeatedPress ==
    /\ setupPc = "done"
    /\ IsSnapshot(data)
    /\ Len(tasks) < MaxPresses
    /\ \/ Pressing("telegram_test",
                   Request("/setpush", PushPayload(TRUE, "telegram", data.push.telegram)))
       \/ Pressing("cloud_newtoken", Request("/newtoken", NoData))

NextCooldown == Tick \/ RepeatedPress

SpecCooldown == OnlineAt(0) /\ [][NextCooldown]_vars

\* The accepted invocations of button b so far, and the time of the last one.
Accepted(b) == {i \in 1..Len(tasks) : tasks[i].kind = b /\ tasks[i].pc # "suppressed"}
LastAccepted(b) == tasks[CHOOSE i \in Accepted(b) : \A j \in Accepted(b) : j <= i].time

\* C33: the cool-down is measured from the last accepted invocation: a
\* suppressed invocation leaves every stamp as it is, and an invocation made
\* 5 or more time units after the last accepted one of the same action is
\* accepted, whatever was suppressed in between; one made less than 5 units
\* after it is suppressed.
C33_CooldownFromLastAccepted ==
    [][Pressed =>
          /\ PressTask.pc = "suppressed" => last_press' = last_press
          /\ Accepted(PressTask.kind) # {} =>
                (PressTask.pc = "suppressed"
                    <=> now - LastAccepted(PressTask.kind) < DEBOUNCE_SECONDS)]_vars

\* An accepted press, a suppressed press of the same button within the
\* window, and a third press 5 units after the first and less than 5 after
\* the suppressed one, which was accepted.
C33_Witness ==
    /\ Len(tasks) = 3
    /\ \A i \in 1..3 : tasks[i].kind = "cloud_newtoken"
    /\ tasks[1].pc # "suppressed"
    /\ tasks[2].pc = "suppressed"
    /\ tasks[3].pc # "suppressed"
    /\ tasks[3].time - tasks[1].time >= DEBOUNCE_SECONDS
    /\ tasks[3].time - tasks[2].time < DEBOUNCE_SECONDS

\* C34: the first invocation of a debounced action after its entity was
\* created is never suppressed, whatever the monotonic clock reads.
C34_FirstPressAccepted ==
    [][Pressed /\ (\A i \in 1..Len(tasks) : tasks[i].kind # PressTask.kind)
          => PressTask.pc # "suppressed"]_vars

----------------------------------------------------------------------------
\* C37: reading the value of the pitmaster temperature sensor never raises,
\* for every Snapshot, the associated channel at the sentinel 999 included.
C37_PitmasterReadNeverRaises == pit.native_value # Raised

----------------------------------------------------------------------------
\* The forecast of a channel with no target.

\* The window of the history h with at least 2 samples is flat or falling, or
\* its clock did not advance.
NotWarming(h) ==
    /\ Cardinality(InWindow(h)) >= 2
    /\ \/ Latest(h)[1] - Earliest(h)[1] <= 0
       \/ Latest(h)[2] - Earliest(h)[2] <= 0

\* C38 as stated: with no target the forecast is unknown for every history.
C38_UnknownWithoutTarget ==
    [][ReadStep /\ IsSnapshot(data) /\ data.max = <<>> => sensor'.native_value = NoData]_vars

\* C38 amended: with no target the forecast is unknown while the window holds
\* fewer than 2 samples and whenever the channel is warming; with at least 2
\* samples in a flat or falling window it is 0, as for a channel with a target.
C38_UnknownWithoutTargetWhileWarming ==
    [][ReadStep /\ IsSnapshot(data) /\ data.max = <<>> =>
          sensor'.native_value =
             IF Sampled /\ NotWarming(sensor'.history) THEN Minutes(0) ELSE NoData]_vars

\* A channel with no target was read twice at the same temperature: 0.
C38_Witness ==
    /\ data # NoData
    /\ data.max = <<>>
    /\ sensor.reads = 2
    /\ Len(sensor.history) = 2
    /\ sensor.history[2][1] > sensor.history[1][1]
    /\ sensor.history[2][2] = sensor.history[1][2]
    /\ sensor.history[2][2] = data.temp
    /\ sensor.native_value = Minutes(0)

----------------------------------------------------------------------------
\* Availability of the sensor entities (sensor.py).

\* The sensor classes by their available property: the channel sensors; the
\* system sensors that test coordinator.data.system; the system time sensor;
\* the sensors of the Settings objects taken at creation (device info, system
\* info, update, IoT info); the pitmaster value sensors, which inherit
\* CoordinatorEntity.available.
SensorKinds == {"channel", "system", "system_time", "settings", "pitmaster_value"}

\* available of a sensor entity that was created from a Snapshot, under the
\* default show_inactive_unavailable = True.
SensorAvailable(kind, success, d) ==
    CASE kind = "channel"         -> Available(success, d, TRUE)
      [] kind = "system"          -> success /\ d # NoData
      [] kind = "system_time"     -> success
      [] kind = "settings"        -> success
      [] kind = "pitmaster_value" -> success

\* C35: whenever the most recent poll cycle produced no Snapshot, every
\* sensor entity of the device reports available = False, the sensors of the
\* Settings and the system time sensor included.
C35_OfflineSensorsUnavailable ==
    (entry_data.sensor_entities /\ setupPc = "done" /\ data = NoData) =>
        \A kind \in SensorKinds : ~SensorAvailable(kind, last_update_success, data)

====
